---- MODULE Spec2Model ----
(***************************************************************************)
(* Model of the runtime discovery pipeline of where-is-it: the JVM side   *)
(* (src/src/java/mod.rs, linux build) and the Python side                 *)
(* (src/src/python).  Strings are sequences of                            *)
(* one-character strings, so that split / strip_prefix / replace /        *)
(* parse::<i32> are computed as the code computes them.  A Rust panic (an *)
(* unwrap on None or Err) is the value "Panic" of an operator and the     *)
(* position "panic" of run.                                               *)
(***************************************************************************)
EXTENDS Integers, Sequences, FiniteSets, TLC

VARIABLES
    cmpPc, v1, v2, r12, r21,         \* compare_version_values applied to a pair
    fltPc, fJvm, fVer, fRes,         \* filter_ver applied to a candidate and a query version
    bstPc, bA, bB, bArch,            \* compare_boosting_architecture applied to two jvms
    bAB, bBA, bSorted,               \* its two results, and the sort of <<bB, bA>>
    pc,                              \* java::run: "start", "collate", "filter", "done", "panic"
    uname, osRelease, jvmDir,        \* the host: uname -ps, /etc/os-release, /usr/lib/jvm
    args,                            \* MatchOptions
    os,                              \* the OperatingSystem of get_operating_system
    jvms,                            \* the sorted vector of collate_jvms
    enumerated,                      \* read_dir was called
    fault,                           \* where run panicked
    result,                          \* the vector run returns
    cOp, cPos,                       \* one candidate: the operation in progress and its position
    cAcc, cChild, cRes,              \* the accessor it is in, the child spawned, the accessor's Result
    cOut,                            \* what the last operation returned
    cPy, cOpts,                      \* the PythonVersion and the MatchOptions of matches
    cSpawns, cCalls,                 \* runs of each field's resolver, operations started
    cCells0, cAsked, cPreset,        \* cells when the operation began, accessors it called, cells preset
    pPc,                             \* Finder::find_all: "start", "found", "filtered", "done", "again"
    pHost, pFinder, pOpts,           \* the providers' sources, the Finder's flags, the MatchOptions
    pFound, pFiltered,               \* find_all_python_versions, and those that match
    pKeys,                           \* each candidate deduplicate_key was called on, with its key
    pOut, pOut2, pFirst              \* find_all, deduplicate of it, find

cmpVars == <<cmpPc, v1, v2, r12, r21>>
fltVars == <<fltPc, fJvm, fVer, fRes>>
bstVars == <<bstPc, bA, bB, bArch, bAB, bBA, bSorted>>
hostVars == <<uname, osRelease, jvmDir, args>>
runVars == <<pc, hostVars, os, jvms, enumerated, fault, result>>
candVars == <<cOp, cPos, cAcc, cChild, cRes, cOut, cPy, cOpts, cSpawns, cCalls, cCells0, cAsked, cPreset>>
pyVars == <<pPc, pHost, pFinder, pOpts, pFound, pFiltered, pKeys, pOut, pOut2, pFirst>>
vars == <<cmpVars, fltVars, bstVars, runVars, candVars, pyVars>>

----------------------------------------------------------------------------
(* Bounds of the generated inputs *)

MaxSegs == 2

\* entries of the JVM directory
MaxEntries == 2

\* operations called on one candidate
MaxCalls == 2

\* directories of PATH
MaxPathDirs == 2

----------------------------------------------------------------------------
(* std string primitives, on sequences of characters *)

DigitChars == <<"0", "1", "2", "3", "4", "5", "6", "7", "8", "9">>

IsDigit(c) == \E d \in 1..10 : DigitChars[d] = c

DigitVal(c) == (CHOOSE d \in 1..10 : DigitChars[d] = c) - 1

I32Max == 2147483647

Max(a, b) == IF a > b THEN a ELSE b

StartsWith(s, p) == Len(s) >= Len(p) /\ SubSeq(s, 1, Len(p)) = p

EndsWith(s, p) == Len(s) >= Len(p) /\ SubSeq(s, Len(s) - Len(p) + 1, Len(s)) = p

\* s.strip_prefix(p).unwrap_or(s)
StripPrefixOr(s, p) == IF StartsWith(s, p) THEN SubSeq(s, Len(p) + 1, Len(s)) ELSE s

\* s.strip_suffix(p).unwrap_or(s)
StripSuffixOr(s, p) == IF EndsWith(s, p) THEN SubSeq(s, 1, Len(s) - Len(p)) ELSE s

\* s.contains(p), p non-empty
Contains(s, p) == \E i \in 1..Len(s) : i + Len(p) - 1 <= Len(s) /\ SubSeq(s, i, i + Len(p) - 1) = p

\* s.matches(c).count()
CountChar(s, c) == Cardinality({i \in 1..Len(s) : s[i] = c})

RECURSIVE Replace(_, _, _)
\* s.replace(pat, rep): every non-overlapping occurrence, left to right
Replace(s, pat, rep) ==
    IF Len(s) < Len(pat) THEN s
    ELSE IF SubSeq(s, 1, Len(pat)) = pat
         THEN rep \o Replace(SubSeq(s, Len(pat) + 1, Len(s)), pat, rep)
         ELSE <<s[1]>> \o Replace(Tail(s), pat, rep)

RECURSIVE SplitFrom(_, _, _, _)
SplitFrom(s, sep, i, cur) ==
    IF i > Len(s) THEN <<cur>>
    ELSE IF s[i] = sep THEN <<cur>> \o SplitFrom(s, sep, i + 1, <<>>)
    ELSE SplitFrom(s, sep, i + 1, Append(cur, s[i]))

\* s.split(sep): always at least one piece, empty pieces kept
Split(s, sep) == SplitFrom(s, sep, 1, <<>>)

RECURSIVE SplitInclusiveFrom(_, _, _, _)
SplitInclusiveFrom(s, sep, i, cur) ==
    IF i > Len(s) THEN (IF cur = <<>> THEN <<>> ELSE <<cur>>)
    ELSE IF s[i] = sep THEN <<Append(cur, sep)>> \o SplitInclusiveFrom(s, sep, i + 1, <<>>)
    ELSE SplitInclusiveFrom(s, sep, i + 1, Append(cur, s[i]))

\* s.split_inclusive(sep): pieces keep their separator, no empty last piece
SplitInclusive(s, sep) == SplitInclusiveFrom(s, sep, 1, <<>>)

RECURSIVE DigitsValue(_, _)
DigitsValue(s, acc) ==
    IF s = <<>> THEN acc ELSE DigitsValue(Tail(s), acc * 10 + DigitVal(s[1]))

\* s.parse::<i32>(): an optional sign, then at least one digit, within 32 bits
ParseI32(s) ==
    LET signed == s # <<>> /\ s[1] \in {"+", "-"}
        digits == IF signed THEN Tail(s) ELSE s
        wellFormed == digits # <<>> /\ \A i \in 1..Len(digits) : IsDigit(digits[i])
        magnitude == IF wellFormed THEN DigitsValue(digits, 0) ELSE 0
        value == IF signed /\ s[1] = "-" THEN 0 - magnitude ELSE magnitude
    IN  IF wellFormed /\ value <= I32Max /\ value >= 0 - I32Max - 1
        THEN [ok |-> TRUE, val |-> value]
        ELSE [ok |-> FALSE, val |-> 0]

----------------------------------------------------------------------------
(* compare_version_values *)

RECURSIVE CompareComponents(_, _, _, _)
\* the loop "for i in 0..max_size" (i is 1-based here)
CompareComponents(count_version1, count_version2, i, max_size) ==
    IF i > max_size THEN "Equal"
    ELSE IF i > Len(count_version1) THEN "Less"
    ELSE IF i > Len(count_version2) THEN "Greater"
    ELSE LET version1_int == ParseI32(count_version1[i])
             version2_int == ParseI32(count_version2[i])
         IN  IF ~version1_int.ok \/ ~version2_int.ok THEN "Panic"
             ELSE IF version1_int.val > version2_int.val THEN "Greater"
             ELSE IF version1_int.val < version2_int.val THEN "Less"
             ELSE CompareComponents(count_version1, count_version2, i + 1, max_size)

\* a normalisation that forgets the sub-version separator
NormaliseVersionKeepUnderscore(version) == StripPrefixOr(version, <<"1", ".">>)

NormaliseVersion(version) == Replace(StripPrefixOr(version, <<"1", ".">>), <<"_">>, <<".">>)

CompareVersionValues(version1, version2) ==
    LET count_version1 == Split(NormaliseVersion(version1), ".")
        count_version2 == Split(NormaliseVersion(version2), ".")
        max_size == Max(Len(count_version1), Len(count_version2))
    IN  CompareComponents(count_version1, count_version2, 1, max_size)

----------------------------------------------------------------------------
(* Option<String>, and the filters of run *)

Jvm(version, name, architecture, path) ==
    [version |-> version, name |-> name, architecture |-> architecture, path |-> path]

None == [some |-> FALSE, val |-> <<>>]

Some(x) == [some |-> TRUE, val |-> x]

RECURSIVE ConcatFirst(_, _)
\* the loop pushing tmp_version.get(i).unwrap_or("") for i in 0..n
ConcatFirst(pieces, n) ==
    IF n = 0 THEN <<>>
    ELSE ConcatFirst(pieces, n - 1) \o (IF n <= Len(pieces) THEN pieces[n] ELSE <<>>)

GetCompareVersion(jvm, version) ==
    LET version_count == CountChar(version, ".")
        jvm_version ==
            IF /\ StartsWith(jvm.version, <<"1", ".">>)
               /\ CountChar(version, ".") = 0
               /\ ~StartsWith(version, <<"1", ".">>)
            THEN StripPrefixOr(jvm.version, <<"1", ".">>)
            ELSE jvm.version
        tmp_version == SplitInclusive(jvm_version, ".")
        compare_version == ConcatFirst(tmp_version, version_count + 1)
    IN  StripSuffixOr(compare_version, <<".">>)

\* "true" / "false", or "Panic" when the comparison panics
FilterVer(ver, jvm) ==
    IF ~ver.some THEN "true"
    ELSE LET version == ver.val
         IN  IF Contains(version, <<"+">>)
             THEN LET sanitised_version == Replace(version, <<"+">>, <<>>)
                      compare_jvm_version == GetCompareVersion(jvm, sanitised_version)
                      compare == CompareVersionValues(compare_jvm_version, sanitised_version)
                  IN  IF compare = "Panic" THEN "Panic"
                      ELSE IF compare = "Less" THEN "false" ELSE "true"
             ELSE LET compare_jvm_version == GetCompareVersion(jvm, version)
                      compare == CompareVersionValues(version, compare_jvm_version)
                  IN  IF compare = "Panic" THEN "Panic"
                      ELSE IF compare # "Equal" THEN "false" ELSE "true"

FilterArch(arch, jvm) == IF arch.some /\ jvm.architecture # arch.val THEN "false" ELSE "true"

FilterName(name, jvm) == IF name.some /\ jvm.name # name.val THEN "false" ELSE "true"

----------------------------------------------------------------------------
(* String constants of java/mod.rs *)

S_Darwin == <<"D", "a", "r", "w", "i", "n">>
S_Linux == <<"L", "i", "n", "u", "x">>
S_arm == <<"a", "r", "m">>
S_x86_64 == <<"x", "8", "6", "_", "6", "4">>
S_i386 == <<"i", "3", "8", "6">>
S_i586 == <<"i", "5", "8", "6">>
S_i686 == <<"i", "6", "8", "6">>
S_aarch64 == <<"a", "a", "r", "c", "h", "6", "4">>
S_arm64 == <<"a", "r", "m", "6", "4">>
S_x86 == <<"x", "8", "6">>
S_amd64 == <<"a", "m", "d", "6", "4">>
S_macOS == <<"m", "a", "c", "O", "S">>
S_ubuntu == <<"u", "b", "u", "n", "t", "u">>
S_debian == <<"d", "e", "b", "i", "a", "n">>
S_rhel == <<"r", "h", "e", "l">>
S_centos == <<"c", "e", "n", "t", "o", "s">>
S_fedora == <<"f", "e", "d", "o", "r", "a">>
S_usr_lib_jvm == <<"/", "u", "s", "r", "/", "l", "i", "b", "/", "j", "v", "m">>
S_java == <<"j", "a", "v", "a">>

UpperChars == <<"A", "B", "C", "D", "E", "F", "G", "H", "I", "J", "K", "L", "M",
                "N", "O", "P", "Q", "R", "S", "T", "U", "V", "W", "X", "Y", "Z">>

LowerChars == <<"a", "b", "c", "d", "e", "f", "g", "h", "i", "j", "k", "l", "m",
                "n", "o", "p", "q", "r", "s", "t", "u", "v", "w", "x", "y", "z">>

ToAsciiLower(c) ==
    IF \E i \in 1..26 : UpperChars[i] = c
    THEN LowerChars[CHOOSE i \in 1..26 : UpperChars[i] = c]
    ELSE c

EqIgnoreAsciiCase(a, b) ==
    Len(a) = Len(b) /\ \A i \in 1..Len(a) : ToAsciiLower(a[i]) = ToAsciiLower(b[i])

----------------------------------------------------------------------------
(* get_operating_system (linux, macos) *)

TrimString(value) ==
    IF EndsWith(value, <<"\r", "\n">>) THEN SubSeq(value, 1, Len(value) - 2)
    ELSE StripSuffixOr(value, <<"\n">>)

OperatingSystem(name, architecture) == [name |-> name, architecture |-> architecture]

\* the default architecture of the if-chain, None where it returns None
DefaultArchitecture(os_name, arch) ==
    IF EqIgnoreAsciiCase(os_name, S_Darwin)
    THEN (IF EqIgnoreAsciiCase(arch, S_arm) THEN Some(S_aarch64) ELSE Some(S_x86_64))
    ELSE IF EqIgnoreAsciiCase(os_name, S_Linux)
    THEN (IF EqIgnoreAsciiCase(arch, S_x86_64) THEN Some(S_x86_64)
          ELSE IF EqIgnoreAsciiCase(arch, S_i386) THEN Some(S_x86)
          ELSE IF EqIgnoreAsciiCase(arch, S_i586) THEN Some(S_x86)
          ELSE IF EqIgnoreAsciiCase(arch, S_i686) THEN Some(S_x86)
          ELSE IF EqIgnoreAsciiCase(arch, S_aarch64) THEN Some(S_aarch64)
          ELSE IF EqIgnoreAsciiCase(arch, S_arm64) THEN Some(S_arm64)
          ELSE None)
    ELSE None

\* [kind |-> "Panic" | "None" | "Some", os |-> OperatingSystem]
GetOperatingSystem(un, rel) ==
    LET noOs == OperatingSystem(<<>>, <<>>)
        parts == Split(un.stdout, " ")
    IN  IF ~un.spawned \/ ~un.utf8 \/ Len(parts) < 2
        THEN [kind |-> "Panic", os |-> noOs]
        ELSE LET os_name == TrimString(parts[1])
                 arch == TrimString(parts[2])
                 default_architecture == DefaultArchitecture(os_name, arch)
             IN  IF ~default_architecture.some THEN [kind |-> "None", os |-> noOs]
                 ELSE IF EqIgnoreAsciiCase(os_name, S_Linux)
                 THEN (IF ~rel.exists THEN [kind |-> "None", os |-> noOs]
                       ELSE IF ~rel.readable THEN [kind |-> "Panic", os |-> noOs]
                       ELSE [kind |-> "Some",
                             os |-> OperatingSystem(
                                        Replace(IF rel.id.some THEN rel.id.val ELSE <<>>,
                                                <<"\"">>, <<>>),
                                        default_architecture.val)])
                 ELSE [kind |-> "Some",
                       os |-> OperatingSystem(
                                  IF EqIgnoreAsciiCase(os_name, S_Darwin) THEN S_macOS ELSE <<>>,
                                  default_architecture.val)]

----------------------------------------------------------------------------
(* Input pools *)

SegTokens == {<<"0">>, <<"1">>}

Separators == {".", "_"}

RECURSIVE GenVersions(_)
\* every string of n segments joined by separators
GenVersions(n) ==
    IF n = 1 THEN SegTokens
    ELSE {p \o <<sep>> \o t : p \in GenVersions(n - 1), sep \in Separators, t \in SegTokens}

V_1_8 == <<"1", ".", "8">>
V_8 == <<"8">>
V_1_8_0_292 == <<"1", ".", "8", ".", "0", "_", "2", "9", "2">>
V_1_8_0d292 == <<"1", ".", "8", ".", "0", ".", "2", "9", "2">>
V_8_0_292 == <<"8", ".", "0", ".", "2", "9", "2">>
V_11 == <<"1", "1">>
V_11_0_2 == <<"1", "1", ".", "0", ".", "2">>
V_11_2 == <<"1", "1", ".", "2">>
V_17 == <<"1", "7">>
V_17_0_2 == <<"1", "7", ".", "0", ".", "2">>
V_21_0_1 == <<"2", "1", ".", "0", ".", "1">>

ExampleVersions == {V_1_8, V_8, V_1_8_0_292, V_1_8_0d292, V_8_0_292, V_11, V_11_0_2,
                    V_11_2, V_17, V_17_0_2, V_21_0_1}

\* the well-formed version strings of the model
WellFormedVersions == ExampleVersions \cup UNION {GenVersions(n) : n \in 1..MaxSegs}

----------------------------------------------------------------------------
(* Specification SpecCmp: compare_version_values on pairs of versions *)

CmpInit ==
    /\ cmpPc = "call"
    /\ v1 \in WellFormedVersions
    /\ v2 \in WellFormedVersions
    /\ r12 = "none"
    /\ r21 = "none"

CmpCompare ==
    /\ cmpPc = "call"
    /\ r12' = CompareVersionValues(v1, v2)
    /\ r21' = CompareVersionValues(v2, v1)
    /\ cmpPc' = "done"
    /\ UNCHANGED <<v1, v2>>

----------------------------------------------------------------------------
(* Specification SpecFilter: filter_ver on a candidate and a query version *)

V_empty == <<>>
V_17_0_2_ea == <<"1", "7", ".", "0", ".", "2", "-", "e", "a">>
V_java == <<"j", "a", "v", "a">>
V_8_x == <<"8", ".", "x">>
V_1_8_0_ea == <<"1", ".", "8", ".", "0", "_", "e", "a">>

\* versions with an empty or non-numeric segment
InvalidVersions == {V_empty, V_17_0_2_ea, V_java, V_8_x, V_1_8_0_ea}

\* majors that are not themselves the legacy marker
LegacyMajors == {<<"8">>, <<"1", "1">>}

DotTriples == {<<x, y, z>> : x \in LegacyMajors, y \in SegTokens, z \in SegTokens}

\* "X.Y.Z"
ModernForm(t) == t[1] \o <<".">> \o t[2] \o <<".">> \o t[3]

\* "1.X.Y_Z"
LegacyForm(t) == <<"1", ".">> \o t[1] \o <<".">> \o t[2] \o <<"_">> \o t[3]

\* <<legacy, modern>> spellings of one version
LegacyPairs == {<<LegacyForm(t), ModernForm(t)>> : t \in DotTriples}
                   \cup {<<V_1_8_0_292, V_8_0_292>>}

CandidateVersions ==
    WellFormedVersions \cup InvalidVersions \cup {p[1] : p \in LegacyPairs} \cup {p[2] : p \in LegacyPairs}

V_8_0 == <<"8", ".", "0">>

\* exact query versions: dot-separated numbers
ExactSpecs ==
    {V_8, V_8_0, V_1_8, V_11, V_17, V_8_0_292}
        \cup {v \in UNION {GenVersions(n) : n \in 1..MaxSegs} : ~Contains(v, <<"_">>)}

\* a query version, exact or with the minimum marker, or the bare marker
QueryVersions ==
    {None, Some(<<"+">>)} \cup {Some(v) : v \in ExactSpecs} \cup {Some(v \o <<"+">>) : v \in ExactSpecs}

----------------------------------------------------------------------------
(* compare_boosting_architecture and the sort of collate_jvms *)

\* a comparator that applies the architecture boost whatever the versions
CompareBoostingArchitectureAlways(a, b, default_arch) ==
    IF b.architecture # default_arch /\ a.architecture = default_arch THEN "Less"
    ELSE IF b.architecture = default_arch /\ a.architecture # default_arch THEN "Greater"
    ELSE CompareVersionValues(b.version, a.version)

CompareBoostingArchitecture(a, b, default_arch) ==
    LET version_test == CompareVersionValues(b.version, a.version)
    IN  IF version_test = "Equal"
        THEN IF b.architecture # default_arch /\ a.architecture = default_arch THEN "Less"
             ELSE IF b.architecture = default_arch /\ a.architecture # default_arch
                  THEN "Greater"
                  ELSE version_test
        ELSE version_test

RECURSIVE InsertTail(_, _, _, _)
\* x moves left past sorted[j] while compare(x, sorted[j]) is Less
InsertTail(sorted, x, j, default_arch) ==
    IF j = 0 THEN [ok |-> TRUE, seq |-> <<x>> \o sorted]
    ELSE LET c == CompareBoostingArchitecture(x, sorted[j], default_arch)
         IN  IF c = "Panic" THEN [ok |-> FALSE, seq |-> <<>>]
             ELSE IF c = "Less" THEN InsertTail(sorted, x, j - 1, default_arch)
             ELSE [ok |-> TRUE,
                   seq |-> SubSeq(sorted, 1, j) \o <<x>> \o SubSeq(sorted, j + 1, Len(sorted))]

RECURSIVE SortFrom(_, _, _, _)
SortFrom(v, i, sorted, default_arch) ==
    IF i > Len(v) THEN [ok |-> TRUE, seq |-> sorted]
    ELSE LET ins == InsertTail(sorted, v[i], Len(sorted), default_arch)
         IN  IF ~ins.ok THEN ins ELSE SortFrom(v, i + 1, ins.seq, default_arch)

\* return_vec.sort_by(compare_boosting_architecture): the stable insertion sort
\* std uses for short slices; a panicking comparison unwinds out of the sort
SortByBoostingArchitecture(v, default_arch) ==
    IF Len(v) < 2 THEN [ok |-> TRUE, seq |-> v]
    ELSE SortFrom(v, 2, <<v[1]>>, default_arch)

----------------------------------------------------------------------------
(* collate_jvms (linux) *)

DirLookup(name) ==
    IF name \in {S_ubuntu, S_debian, S_rhel, S_centos, S_fedora} THEN Some(S_usr_lib_jvm) ELSE None

PathJoin(dir, file_name) == dir \o <<"/">> \o file_name

UnwrapOrEmpty(opt) == IF opt.some THEN opt.val ELSE <<>>

\* what one directory entry contributes: "panic", "skip" or "jvm"
CollateEntry(dir, e) ==
    LET path == PathJoin(dir, e.name)
        noJvm == Jvm(<<>>, <<>>, <<>>, <<>>)
    IN  IF e.kind = "dangling" THEN [kind |-> "panic", at |-> "metadata", jvm |-> noJvm]
        ELSE IF e.kind # "dir" THEN [kind |-> "skip", at |-> "none", jvm |-> noJvm]
        ELSE IF e.release.kind = "props"
        THEN [kind |-> "jvm", at |-> "none",
              jvm |-> Jvm(Replace(UnwrapOrEmpty(e.release.JAVA_VERSION), <<"\"">>, <<>>),
                          e.name,
                          Replace(UnwrapOrEmpty(e.release.OS_ARCH), <<"\"">>, <<>>),
                          path)]
        ELSE IF e.release.kind = "unreadable"
        THEN [kind |-> "panic", at |-> "release", jvm |-> noJvm]
        ELSE LET parts == Split(e.name, "-")
             IN  IF Len(parts) < 3 \/ parts[2] # S_java
                 THEN [kind |-> "skip", at |-> "none", jvm |-> noJvm]
                 ELSE IF Len(parts) < 4
                 THEN [kind |-> "panic", at |-> "folder_name", jvm |-> noJvm]
                 ELSE [kind |-> "jvm", at |-> "none",
                       jvm |-> Jvm(parts[2],
                                   e.name,
                                   Replace(Replace(parts[4], S_amd64, S_x86_64), S_i386, S_x86),
                                   path)]

\* the orders in which a HashSet of jvms can be iterated
Orders(set) ==
    {f \in [1..Cardinality(set) -> set] : \A i, j \in 1..Cardinality(set) : f[i] = f[j] => i = j}

\* collate_jvms up to the sort: "empty" (no directory for this distribution),
\* "panic" (at: the entries that panic; read_dir's order decides which is met
\* first), or the "set" of jvms found
CollateSet(operating_system, dir) ==
    LET path == DirLookup(operating_system.name)
    IN  IF ~path.some THEN [kind |-> "empty", at |-> {"none"}, jvms |-> {}]
        ELSE IF ~dir.readable THEN [kind |-> "panic", at |-> {"read_dir"}, jvms |-> {}]
        ELSE LET found == {CollateEntry(path.val, e) : e \in dir.entries}
                 panics == {f \in found : f.kind = "panic"}
             IN  IF panics # {}
                 THEN [kind |-> "panic", at |-> {f.at : f \in panics}, jvms |-> {}]
                 ELSE [kind |-> "set", at |-> {"none"},
                       jvms |-> {f.jvm : f \in {g \in found : g.kind = "jvm"}}]

----------------------------------------------------------------------------
(* run: the filter chain *)

RECURSIVE FilterJvms(_, _, _)
\* .filter(filter_arch).filter(filter_ver).filter(filter_name).collect(), one
\* element at a time; a panic in filter_ver unwinds out of the chain
FilterJvms(a, v, i) ==
    IF i > Len(v) THEN [ok |-> TRUE, seq |-> <<>>]
    ELSE IF FilterArch(a.arch, v[i]) = "false" THEN FilterJvms(a, v, i + 1)
    ELSE LET ver == FilterVer(a.version, v[i])
         IN  IF ver = "Panic" THEN [ok |-> FALSE, seq |-> <<>>]
             ELSE LET rest == FilterJvms(a, v, i + 1)
                      keep == ver = "true" /\ FilterName(a.name, v[i]) = "true"
                  IN  IF ~rest.ok THEN rest
                      ELSE [ok |-> TRUE, seq |-> (IF keep THEN <<v[i]>> ELSE <<>>) \o rest.seq]

----------------------------------------------------------------------------
(* The hosts of specification Spec *)

N_java17 == <<"j", "a", "v", "a", "-", "1", "7", "-", "o", "p", "e", "n", "j", "d", "k", "-", "a", "m", "d", "6", "4">>
N_java8 == <<"j", "a", "v", "a", "-", "8", "-", "o", "p", "e", "n", "j", "d", "k", "-", "a", "m", "d", "6", "4">>
N_jdk17 == <<"j", "d", "k", "-", "1", "7">>
N_jdk11 == <<"j", "d", "k", "-", "1", "1", "-", "a", "r", "m">>
N_ea == <<"j", "d", "k", "-", "e", "a">>
N_nover == <<"j", "d", "k", "-", "x">>
N_default == <<"d", "e", "f", "a", "u", "l", "t", "-", "j", "a", "v", "a">>
N_jinfo == <<".", "j", "a", "v", "a", ".", "j", "i", "n", "f", "o">>
N_xjava4 == <<"x", "-", "j", "a", "v", "a", "-", "y", "-", "i", "3", "8", "6">>
N_xjava3 == <<"x", "-", "j", "a", "v", "a", "-", "y">>
N_bad == <<"j", "d", "k", "-", "b", "a", "d">>
N_gone == <<"g", "o", "n", "e">>
V_17_0_2_quoted == <<"\"", "1", "7", ".", "0", ".", "2", "\"">>
V_11_plus == <<"1", "1", "+">>
U_linux_x86_64 == <<"L", "i", "n", "u", "x", " ", "x", "8", "6", "_", "6", "4", "\n">>
U_linux_unknown == <<"L", "i", "n", "u", "x", " ", "u", "n", "k", "n", "o", "w", "n", "\n">>
U_linux_aarch64 == <<"l", "i", "n", "u", "x", " ", "A", "A", "R", "C", "H", "6", "4", "\n">>
U_darwin_arm == <<"D", "a", "r", "w", "i", "n", " ", "a", "r", "m", "\n">>
U_linux_only == <<"L", "i", "n", "u", "x", "\n">>
S_arch_distro == <<"a", "r", "c", "h">>
S_ubuntu_quoted == <<"\"", "u", "b", "u", "n", "t", "u", "\"">>

Uname(spawned, utf8, stdout) == [spawned |-> spawned, utf8 |-> utf8, stdout |-> stdout]

UnameOutputs ==
    {Uname(TRUE, TRUE, U_linux_x86_64), Uname(TRUE, TRUE, U_linux_unknown),
     Uname(TRUE, TRUE, U_linux_aarch64), Uname(TRUE, TRUE, U_darwin_arm),
     Uname(TRUE, TRUE, U_linux_only), Uname(TRUE, TRUE, <<>>),
     Uname(FALSE, TRUE, <<>>), Uname(TRUE, FALSE, <<>>)}

OsRelease(exists, readable, id) == [exists |-> exists, readable |-> readable, id |-> id]

OsReleases ==
    {OsRelease(TRUE, TRUE, Some(S_ubuntu)), OsRelease(TRUE, TRUE, Some(S_ubuntu_quoted)),
     OsRelease(TRUE, TRUE, Some(S_arch_distro)), OsRelease(TRUE, TRUE, None),
     OsRelease(FALSE, FALSE, None), OsRelease(TRUE, FALSE, None)}

NoRelease == [kind |-> "none", JAVA_VERSION |-> None, OS_ARCH |-> None]

Release(version, arch) == [kind |-> "props", JAVA_VERSION |-> version, OS_ARCH |-> arch]

Unreadable == [kind |-> "unreadable", JAVA_VERSION |-> None, OS_ARCH |-> None]

Entry(name, kind, release) == [name |-> name, kind |-> kind, release |-> release]

E_java17 == Entry(N_java17, "dir", Release(Some(V_17_0_2_quoted), Some(S_amd64)))
E_java8 == Entry(N_java8, "dir", NoRelease)
E_jdk17 == Entry(N_jdk17, "dir", Release(Some(V_17_0_2), Some(S_x86_64)))
E_jdk11 == Entry(N_jdk11, "dir", Release(Some(V_11_0_2), Some(S_aarch64)))
E_ea == Entry(N_ea, "dir", Release(Some(V_17_0_2_ea), Some(S_x86_64)))
E_nover == Entry(N_nover, "dir", Release(None, Some(S_x86_64)))
E_bad == Entry(N_bad, "dir", Unreadable)
E_default == Entry(N_default, "symlink", NoRelease)
E_jinfo == Entry(N_jinfo, "file", NoRelease)
E_gone == Entry(N_gone, "dangling", NoRelease)
E_xjava4 == Entry(N_xjava4, "dir", NoRelease)
E_xjava3 == Entry(N_xjava3, "dir", NoRelease)

EntryCatalog == {E_java17, E_java8, E_jdk17, E_jdk11, E_ea, E_nover, E_bad, E_default,
                 E_jinfo, E_gone, E_xjava4, E_xjava3}

JvmDirs ==
    {[readable |-> FALSE, entries |-> {}]}
        \cup {[readable |-> TRUE, entries |-> es] :
                 es \in {x \in SUBSET EntryCatalog : Cardinality(x) <= MaxEntries}}

MatchOptions(name, arch, version) == [name |-> name, arch |-> arch, version |-> version]

Queries ==
    {MatchOptions(n, a, v) : n \in {None, Some(N_jdk17)}, a \in {None, Some(S_x86_64)},
                             v \in {None, Some(V_11_plus), Some(V_17)}}

----------------------------------------------------------------------------
(* Specification Spec: java::run *)

RunIdle ==
    /\ pc = "off"
    /\ uname = Uname(FALSE, FALSE, <<>>)
    /\ osRelease = OsRelease(FALSE, FALSE, None)
    /\ jvmDir = [readable |-> FALSE, entries |-> {}]
    /\ args = MatchOptions(None, None, None)
    /\ os = OperatingSystem(<<>>, <<>>)
    /\ jvms = <<>>
    /\ enumerated = FALSE
    /\ fault = "none"
    /\ result = <<>>

\* the hosts on which run reaches the JVM directory
DirectoryHosts ==
    {<<u, r>> : u \in {Uname(TRUE, TRUE, U_linux_x86_64), Uname(TRUE, TRUE, U_linux_aarch64)},
                r \in {OsRelease(TRUE, TRUE, Some(S_ubuntu)),
                       OsRelease(TRUE, TRUE, Some(S_ubuntu_quoted))}}

\* Every host with every directory and query where run reaches the directory;
\* the other hosts with one directory and one query, which nothing reads there.
RunInit ==
    /\ pc = "start"
    /\ \/ /\ \E h \in DirectoryHosts : uname = h[1] /\ osRelease = h[2]
          /\ jvmDir \in JvmDirs
          /\ args \in Queries
       \/ /\ \E h \in (UnameOutputs \X OsReleases) \ DirectoryHosts :
                 uname = h[1] /\ osRelease = h[2]
          /\ jvmDir = [readable |-> TRUE, entries |-> {E_java17, E_java8}]
          /\ args = MatchOptions(None, None, Some(V_11_plus))
    /\ os = OperatingSystem(<<>>, <<>>)
    /\ jvms = <<>>
    /\ enumerated = FALSE
    /\ fault = "none"
    /\ result = <<>>

\* run, lines 69-72
RunGetOperatingSystem ==
    /\ pc = "start"
    /\ LET probe == GetOperatingSystem(uname, osRelease)
       IN  /\ pc' = CASE probe.kind = "Panic" -> "panic"
                      [] probe.kind = "None" -> "done"
                      [] OTHER -> "collate"
           /\ fault' = IF probe.kind = "Panic" THEN "get_operating_system" ELSE fault
           /\ os' = probe.os
    /\ UNCHANGED <<hostVars, jvms, enumerated, result>>

\* run, line 75: collate_jvms, its sort included
RunCollateJvms ==
    /\ pc = "collate"
    /\ LET found == CollateSet(os, jvmDir)
       IN  /\ enumerated' = DirLookup(os.name).some
           /\ \E order \in Orders(found.jvms), at \in found.at :
                 LET sorted == SortByBoostingArchitecture(order, os.architecture)
                 IN  /\ pc' = IF found.kind = "panic" \/ ~sorted.ok THEN "panic" ELSE "filter"
                     /\ fault' = IF found.kind = "panic" THEN at
                                 ELSE IF ~sorted.ok THEN "sort" ELSE fault
                     /\ jvms' = sorted.seq
    /\ UNCHANGED <<hostVars, os, result>>

\* run, lines 76-84
RunFilter ==
    /\ pc = "filter"
    /\ LET filtered == FilterJvms(args, jvms, 1)
       IN  /\ pc' = IF filtered.ok THEN "done" ELSE "panic"
           /\ fault' = IF filtered.ok THEN fault ELSE "filter_ver"
           /\ result' = filtered.seq
    /\ UNCHANGED <<hostVars, os, jvms, enumerated>>

CmpIdle == cmpPc = "off" /\ v1 = <<>> /\ v2 = <<>> /\ r12 = "none" /\ r21 = "none"

FltIdle == fltPc = "off" /\ fJvm = Jvm(<<>>, <<>>, <<>>, <<>>) /\ fVer = None /\ fRes = "none"

FltInit ==
    /\ fltPc = "call"
    /\ fJvm \in {Jvm(v, <<>>, <<>>, <<>>) : v \in CandidateVersions}
    /\ fVer \in QueryVersions
    /\ fRes = "none"

FltFilterVer ==
    /\ fltPc = "call"
    /\ fRes' = FilterVer(fVer, fJvm)
    /\ fltPc' = "done"
    /\ UNCHANGED <<fJvm, fVer>>

----------------------------------------------------------------------------
(* Specification SpecBoost: compare_boosting_architecture on pairs of jvms *)

\* invalid versions included: the comparator is total only where it does not panic
BoostVersions ==
    InvalidVersions \cup ExampleVersions \cup {v \in UNION {GenVersions(n) : n \in 1..MaxSegs} : ~Contains(v, <<"_">>)}

BoostJvms == {Jvm(v, <<>>, a, <<>>) : v \in BoostVersions, a \in {S_x86_64, S_aarch64, S_amd64}}

BstIdle ==
    /\ bstPc = "off"
    /\ bA = Jvm(<<>>, <<>>, <<>>, <<>>)
    /\ bB = Jvm(<<>>, <<>>, <<>>, <<>>)
    /\ bArch = <<>>
    /\ bAB = "none"
    /\ bBA = "none"
    /\ bSorted = <<>>

BstInit ==
    /\ bstPc = "call"
    /\ bA \in BoostJvms
    /\ bB \in BoostJvms
    /\ bArch \in {S_x86_64, S_aarch64}
    /\ bAB = "none"
    /\ bBA = "none"
    /\ bSorted = <<>>

BstCompare ==
    /\ bstPc = "call"
    /\ bAB' = CompareBoostingArchitecture(bA, bB, bArch)
    /\ bBA' = CompareBoostingArchitecture(bB, bA, bArch)
    /\ bSorted' = SortByBoostingArchitecture(<<bB, bA>>, bArch).seq
    /\ bstPc' = "done"
    /\ UNCHANGED <<bA, bB, bArch>>

----------------------------------------------------------------------------
(* The Python side (src/src/python): a candidate is a PythonVersion, its   *)
(* three lazily resolved cells being Options; a child process is the       *)
(* record of what it does once spawned.                                    *)

NoneOf(d) == [some |-> FALSE, val |-> d]

WhiteChars == {" ", "\n", "\r", "\t"}

RECURSIVE TrimStart(_)
TrimStart(s) == IF s # <<>> /\ s[1] \in WhiteChars THEN TrimStart(Tail(s)) ELSE s

RECURSIVE TrimEnd(_)
TrimEnd(s) == IF s # <<>> /\ s[Len(s)] \in WhiteChars THEN TrimEnd(SubSeq(s, 1, Len(s) - 1)) ELSE s

\* str::trim
Trim(s) == TrimEnd(TrimStart(s))

AllDigits(s) == \A i \in 1..Len(s) : IsDigit(s[i])

RECURSIVE DigitsPrefix(_)
DigitsPrefix(s) == IF s # <<>> /\ IsDigit(s[1]) THEN <<s[1]>> \o DigitsPrefix(Tail(s)) ELSE <<>>

\* executable.file_name(): the last component of the path
FileName(path) == LET parts == Split(path, "/") IN parts[Len(parts)]

\* pep440_rs::Version: the release numbers, the pre-release and the dev release
Version(release, pre, dev) == [release |-> release, pre |-> pre, dev |-> dev]

NoVersion == Version(<<>>, NoneOf(<<0, 0>>), NoneOf(0))

PreKinds == <<<<"a">>, <<"b">>, <<"r", "c">>>>

\* the pre-release marker of a release segment's remainder: <<kind, number>>
ParsePre(r) ==
    LET ks == {k \in 1..3 : StartsWith(r, PreKinds[k])} IN
    IF ks = {} THEN NoneOf(<<0, 0>>)
    ELSE LET k == CHOOSE x \in ks : TRUE
             n == SubSeq(r, Len(PreKinds[k]) + 1, Len(r))
         IN  IF AllDigits(n) THEN Some(<<k, DigitsValue(n, 0)>>) ELSE NoneOf(<<0, 0>>)

\* Version::from_str on N(.N)*[{a|b|rc}N][.devN]
VersionFromStr(s) ==
    LET parts == Split(s, ".")
        last == parts[Len(parts)]
        hasDev == Len(parts) >= 2 /\ StartsWith(last, <<"d", "e", "v">>) /\ AllDigits(SubSeq(last, 4, Len(last)))
        core == IF hasDev THEN SubSeq(parts, 1, Len(parts) - 1) ELSE parts
        tip == core[Len(core)]
        tipDigits == DigitsPrefix(tip)
        tipRest == SubSeq(tip, Len(tipDigits) + 1, Len(tip))
        pre == ParsePre(tipRest)
        numbers == [i \in 1..Len(core) |-> IF i = Len(core) THEN tipDigits ELSE core[i]]
        wellFormed == /\ \A i \in 1..Len(numbers) : numbers[i] # <<>> /\ AllDigits(numbers[i])
                      /\ tipRest = <<>> \/ pre.some
    IN  IF wellFormed
        THEN [ok |-> TRUE,
              val |-> Version([i \in 1..Len(numbers) |-> DigitsValue(numbers[i], 0)], pre,
                              IF hasDev THEN Some(DigitsValue(SubSeq(last, 4, Len(last)), 0)) ELSE NoneOf(0))]
        ELSE [ok |-> FALSE, val |-> NoVersion]

IsPre(version) == version.pre.some

IsDev(version) == version.dev.some

\* release.get(i), the index counted from 0
ReleaseGet(version, i) ==
    IF i + 1 <= Len(version.release) THEN Some(version.release[i + 1]) ELSE NoneOf(0)

RECURSIVE CompareRelease(_, _, _)
\* the release numbers, the shorter padded with zeros
CompareRelease(a, b, i) ==
    IF i > Len(a) /\ i > Len(b) THEN "Equal"
    ELSE LET x == IF i <= Len(a) THEN a[i] ELSE 0
             y == IF i <= Len(b) THEN b[i] ELSE 0
         IN  IF x < y THEN "Less" ELSE IF x > y THEN "Greater" ELSE CompareRelease(a, b, i + 1)

\* the position of a version among those of one release:
\* .devN < aN.devM < aN < bN < rcN < final
PhaseKey(version) ==
    IF version.pre.some
    THEN <<version.pre.val[1], version.pre.val[2], IF version.dev.some THEN 0 ELSE 1,
           IF version.dev.some THEN version.dev.val ELSE 0>>
    ELSE IF version.dev.some THEN <<0, version.dev.val, 0, 0>>
    ELSE <<4, 0, 0, 0>>

RECURSIVE CompareTuple(_, _, _)
CompareTuple(a, b, i) ==
    IF i > Len(a) THEN "Equal"
    ELSE IF a[i] < b[i] THEN "Less" ELSE IF a[i] > b[i] THEN "Greater" ELSE CompareTuple(a, b, i + 1)

\* Ord for Version
CompareVersion(a, b) ==
    LET r == CompareRelease(a.release, b.release, 1)
    IN  IF r # "Equal" THEN r ELSE CompareTuple(PhaseKey(a), PhaseKey(b), 1)

----------------------------------------------------------------------------
(* run_python_script and the lazily resolved fields of PythonVersion *)

GET_VERSION_TIMEOUT == 5

\* what a child does: whether spawn succeeds, when it exits ("intime" within
\* the bound of a wait, "late" after it, "never"), its status and its stdout
Child(spawned, exits, success, utf8, stdout) ==
    [spawned |-> spawned, exits |-> exits, success |-> success, utf8 |-> utf8, stdout |-> stdout]

\* a wait with this timeout sees the child exit
ExitSeen(child, timeout) ==
    IF timeout.some THEN child.exits = "intime" ELSE child.exits # "never"

\* the Result of run_python_script once the child has exited
ExitResult(child) ==
    IF ~child.success THEN [kind |-> "Err", error |-> "status", out |-> <<>>]
    ELSE IF ~child.utf8 THEN [kind |-> "Err", error |-> "utf8", out |-> <<>>]
    ELSE [kind |-> "Ok", error |-> "none", out |-> child.stdout]

\* run_python_script; "Hang" when wait_with_output never returns
RunPythonScript(child, timeout) ==
    IF ~child.spawned THEN [kind |-> "Err", error |-> "spawn", out |-> <<>>]
    ELSE IF ExitSeen(child, timeout) THEN ExitResult(child)
    ELSE IF timeout.some THEN [kind |-> "Err", error |-> "TimedOut", out |-> <<>>]
    ELSE [kind |-> "Hang", error |-> "none", out |-> <<>>]

\* the timeout each resolver passes to run_python_script
TimeoutOf(field) == IF field = "version" THEN Some(GET_VERSION_TIMEOUT) ELSE NoneOf(0)

\* the value a resolver makes of the script's output
Resolved(field, r) ==
    IF r.kind # "Ok" THEN [kind |-> r.kind, val |-> <<>>]
    ELSE IF field = "version"
    THEN LET version == Split(Trim(r.out), "+")[1]
             parsed == VersionFromStr(version)
         IN  IF parsed.ok THEN [kind |-> "Ok", val |-> parsed.val] ELSE [kind |-> "Err", val |-> <<>>]
    ELSE [kind |-> "Ok", val |-> Trim(r.out)]

\* _get_version, _get_interpreter, _get_architecture
Get(field, child) == Resolved(field, RunPythonScript(child, TimeoutOf(field)))

NoCell(field) == IF field = "version" THEN NoneOf(NoVersion) ELSE None

\* facts of the file system about an executable
File(is_symlink, suffix, real, hash) ==
    [is_symlink |-> is_symlink, suffix |-> suffix, real |-> real, hash |-> hash]

\* PythonVersion::new, with the file and the children its resolvers would spawn
PythonVersion(executable, file, children) ==
    [executable |-> executable, formatted_name |-> None,
     version |-> NoCell("version"), interpreter |-> NoCell("interpreter"),
     architecture |-> NoCell("architecture"), keep_symlink |-> FALSE,
     file |-> file, children |-> children]

WithVersion(p, version) == [p EXCEPT !.version = Some(version)]

WithInterpreter(p, interpreter) == [p EXCEPT !.interpreter = Some(interpreter)]

WithArchitecture(p, architecture) == [p EXCEPT !.architecture = Some(architecture)]

WithKeepSymlink(p, keep_symlink) == [p EXCEPT !.keep_symlink = keep_symlink]

\* the three cells of a candidate
Cells(p) == [version |-> p.version, interpreter |-> p.interpreter, architecture |-> p.architecture]

\* inner.insert(self._get_..()?): the resolver's result r, inserted in the cell
\* only when it is Ok
Filled(field, p, r) ==
    [kind |-> r.kind, val |-> r.val,
     py |-> IF r.kind = "Ok" THEN [p EXCEPT ![field] = Some(r.val)] ELSE p,
     spawn |-> p.children[field].spawned]

\* version(), interpreter(), architecture(): the cell if it is filled, else
\* the resolver
Access(field, p) ==
    IF p[field].some THEN [kind |-> "Ok", val |-> p[field].val, py |-> p, spawn |-> FALSE]
    ELSE Filled(field, p, Get(field, p.children[field]))

\* real_path
RealPath(p) == IF p.file.real.some THEN p.file.real.val ELSE p.executable

\* content_hash
ContentHash(p) == p.file.hash

\* MatchOptions of the Python finder
PyMatchOptions(major, minor, patch, pre, dev, name, architecture) ==
    [major |-> major, minor |-> minor, patch |-> patch, pre |-> pre, dev |-> dev,
     name |-> name, architecture |-> architecture]

\* matches, lines 200-204
NameMatches(p, options) == ~options.name.some \/ FileName(p.executable) = options.name.val

\* matches, lines 212-237
VersionMatches(version, options) ==
    /\ options.major.some => ReleaseGet(version, 0) = Some(options.major.val)
    /\ options.minor.some => ReleaseGet(version, 1) = Some(options.minor.val)
    /\ options.patch.some => ReleaseGet(version, 2) = Some(options.patch.val)
    /\ options.dev.some => IsDev(version) = options.dev.val
    /\ options.pre.some => IsPre(version) = options.pre.val

\* matches, lines 212-240: the version constraints, v being version()'s result
MatchesVersion(options, v) ==
    IF v.kind # "Ok" THEN [res |-> "false", py |-> v.py]
    ELSE [res |-> IF VersionMatches(v.val, options) THEN "true" ELSE "false", py |-> v.py]

\* matches, lines 205-211: the architecture constraint, a being
\* architecture()'s result when the query has one
MatchesArchitecture(p, options, a) ==
    IF a.kind = "Hang" THEN [res |-> "Hang", py |-> p]
    ELSE IF options.architecture.some /\ (a.kind = "Err" \/ a.val # options.architecture.val)
    THEN [res |-> "false", py |-> a.py]
    ELSE MatchesVersion(options, Access("version", a.py))

\* matches: "true", "false", or "Hang" when a resolver never returns; py is
\* the candidate with the cells the call filled
Matches(p, options) ==
    IF ~NameMatches(p, options) THEN [res |-> "false", py |-> p]
    ELSE MatchesArchitecture(p, options,
                             IF options.architecture.some THEN Access("architecture", p)
                             ELSE [kind |-> "Ok", val |-> <<>>, py |-> p, spawn |-> FALSE])

----------------------------------------------------------------------------
(* Specification SpecCand: accessor calls and matches on one candidate,    *)
(* a child process being a step of its own                                 *)

P_b_python3 == <<"/", "b", "/", "p", "y", "t", "h", "o", "n", "3">>
P_b_python311 == <<"/", "b", "/", "p", "y", "t", "h", "o", "n", "3", ".", "1", "1">>
P_a_python3 == <<"/", "a", "/", "p", "y", "t", "h", "o", "n", "3">>
P_a_python == <<"/", "a", "/", "p", "y", "t", "h", "o", "n">>
P_c_py_python3 == <<"/", "c", "/", "p", "y", "/", "p", "y", "t", "h", "o", "n", "3">>
N_python3 == <<"p", "y", "t", "h", "o", "n", "3">>
N_python == <<"p", "y", "t", "h", "o", "n">>
S_64bit == <<"6", "4", "b", "i", "t">>
S_32bit == <<"3", "2", "b", "i", "t">>
O_3_11_4 == <<"3", ".", "1", "1", ".", "4", "\n">>
O_3_12_0rc1 == <<" ", "3", ".", "1", "2", ".", "0", "r", "c", "1", "\n">>
O_3_11_4_plus == <<"3", ".", "1", "1", ".", "4", "+", "\n">>
O_3_13_0a1_dev2 == <<"3", ".", "1", "3", ".", "0", "a", "1", ".", "d", "e", "v", "2", "\n">>
O_2_7 == <<"2", ".", "7", "\n">>
O_garbage == <<"P", "y", "t", "h", "o", "n", "\n">>
O_64bit == <<"6", "4", "b", "i", "t", "\n">>
O_32bit == <<"3", "2", "b", "i", "t", "\n">>
O_b_python3 == <<"/", "b", "/", "p", "y", "t", "h", "o", "n", "3", "\n">>
O_a_python3 == <<"/", "a", "/", "p", "y", "t", "h", "o", "n", "3", "\n">>

Fields == {"version", "interpreter", "architecture"}

Exits(stdout) == Child(TRUE, "intime", TRUE, TRUE, stdout)

C_fails == Child(TRUE, "intime", FALSE, TRUE, <<>>)
C_binary == Child(TRUE, "intime", TRUE, FALSE, <<>>)
C_late == Child(TRUE, "late", TRUE, TRUE, O_3_11_4)
C_never == Child(TRUE, "never", FALSE, TRUE, <<>>)
C_nospawn == Child(FALSE, "never", FALSE, TRUE, <<>>)

\* the children a resolver can meet
Children(field) ==
    IF field = "version"
    THEN {Exits(O_3_11_4), Exits(O_3_12_0rc1), Exits(O_garbage), C_fails, C_late, C_never, C_nospawn}
    ELSE IF field = "architecture"
    THEN {Exits(O_64bit), Exits(O_32bit), C_fails, C_binary, C_never}
    ELSE {Exits(O_b_python3), C_fails, C_never}

V3_11_4 == Version(<<3, 11, 4>>, NoneOf(<<0, 0>>), NoneOf(0))

NoFile == File(FALSE, 0, None, None)

NoChildren == [f \in Fields |-> C_nospawn]

\* candidates as the providers construct them: new, with_interpreter; and
\* with the other cells preset
CandPythons ==
    LET new == PythonVersion(P_b_python3, NoFile, NoChildren)
    IN  {new, WithInterpreter(new, P_b_python3), WithVersion(new, V3_11_4),
         WithArchitecture(new, S_64bit)}

CandOptions(major, minor, pre, name, architecture) ==
    PyMatchOptions(major, minor, NoneOf(0), pre, NoneOf(FALSE), name, architecture)

CandQueries ==
    {CandOptions(NoneOf(0), NoneOf(0), NoneOf(FALSE), None, None),
     CandOptions(NoneOf(0), NoneOf(0), NoneOf(FALSE), Some(N_python3), None),
     CandOptions(NoneOf(0), NoneOf(0), NoneOf(FALSE), Some(N_python), None),
     CandOptions(NoneOf(0), NoneOf(0), NoneOf(FALSE), None, Some(S_64bit)),
     CandOptions(Some(3), NoneOf(0), NoneOf(FALSE), None, None),
     CandOptions(Some(3), Some(11), Some(FALSE), None, None),
     CandOptions(Some(3), NoneOf(0), NoneOf(FALSE), Some(N_python), Some(S_64bit)),
     CandOptions(Some(3), NoneOf(0), NoneOf(FALSE), Some(N_python3), Some(S_64bit))}

\* the Result an accessor returns: Ok with a Version or with a String, or Err
AccessorResult(field, r) ==
    [kind |-> r.kind,
     version |-> IF field = "version" /\ r.kind = "Ok" THEN r.val ELSE NoVersion,
     text |-> IF field # "version" /\ r.kind = "Ok" THEN r.val ELSE <<>>]

NoResult == [kind |-> "none", version |-> NoVersion, text |-> <<>>]

\* the resolvers on the children they can meet, tabulated
GetOf == [field \in Fields |-> [child \in Children(field) |-> Get(field, child)]]

CandIdle ==
    /\ cOp = "off"
    /\ cPos = "idle"
    /\ cAcc = "idle"
    /\ cChild = C_nospawn
    /\ cRes = NoResult
    /\ cOut = "none"
    /\ cPy = PythonVersion(<<>>, NoFile, NoChildren)
    /\ cOpts = PyMatchOptions(NoneOf(0), NoneOf(0), NoneOf(0), NoneOf(FALSE), NoneOf(FALSE), None, None)
    /\ cSpawns = [f \in Fields |-> 0]
    /\ cCalls = 0
    /\ cCells0 = Cells(PythonVersion(<<>>, NoFile, NoChildren))
    /\ cAsked = {}
    /\ cPreset = {}

CandInit ==
    /\ cOp = "none"
    /\ cPos = "idle"
    /\ cAcc = "idle"
    /\ cChild = C_nospawn
    /\ cRes = NoResult
    /\ cOut = "none"
    /\ cPy \in CandPythons
    /\ cOpts \in CandQueries
    /\ cSpawns = [f \in Fields |-> 0]
    /\ cCalls = 0
    /\ cCells0 = Cells(cPy)
    /\ cAsked = {}
    /\ cPreset = {f \in Fields : cPy[f].some}

\* the field whose accessor the operation in progress calls at its position
FieldAt(op, pos) ==
    IF op = "matches" THEN (IF pos \in {"arch", "arch2"} THEN "architecture" ELSE "version") ELSE op

\* matches after the name comparison, lines 200-205
AfterNameAlways(p, options) == IF options.architecture.some THEN "arch" ELSE "version"

AfterName(p, options) ==
    IF ~NameMatches(p, options) THEN "ret"
    ELSE IF options.architecture.some THEN "arch" ELSE "version"

\* a caller starts version(), interpreter(), architecture() or matches(options)
CandBegin ==
    /\ cOp = "none"
    /\ cCalls < MaxCalls
    /\ \E op \in Fields \cup {"matches"} :
          /\ cOp' = op
          /\ cPos' = IF op = "matches" THEN "name" ELSE "call"
    /\ cCalls' = cCalls + 1
    /\ cCells0' = Cells(cPy)
    /\ cAsked' = {}
    /\ cOut' = "none"
    /\ UNCHANGED <<cAcc, cChild, cRes, cPy, cOpts, cSpawns, cPreset>>

\* matches, lines 200-204
CandMatchesName ==
    /\ cOp = "matches"
    /\ cPos = "name"
    /\ cPos' = AfterName(cPy, cOpts)
    /\ cOut' = IF ~NameMatches(cPy, cOpts) THEN "false" ELSE cOut
    /\ UNCHANGED <<cOp, cAcc, cChild, cRes, cPy, cOpts, cSpawns, cCalls, cCells0, cAsked, cPreset>>

\* an accessor is entered: the filled cell is returned, else the child is spawned
CandCall ==
    /\ cOp \in Fields \cup {"matches"}
    /\ cPos \in {"call", "arch", "arch2", "version"}
    /\ cAcc = "idle"
    /\ LET field == FieldAt(cOp, cPos)
       IN  /\ cAsked' = cAsked \cup {field}
           /\ IF cPy[field].some
              THEN /\ cRes' = AccessorResult(field, [kind |-> "Ok", val |-> cPy[field].val])
                   /\ cAcc' = "ret"
                   /\ UNCHANGED <<cChild, cSpawns>>
              ELSE \E child \in Children(field) :
                      /\ cChild' = child
                      /\ cSpawns' = [cSpawns EXCEPT ![field] = @ + 1]
                      /\ IF child.spawned
                         THEN cAcc' = "wait" /\ cRes' = cRes
                         ELSE cAcc' = "ret" /\ cRes' = AccessorResult(field, GetOf[field][child])
    /\ UNCHANGED <<cOp, cPos, cOut, cPy, cOpts, cCalls, cCells0, cPreset>>

\* the wait sees the child exit; the resolver's value fills the cell when Ok
CandChildExits ==
    /\ cAcc = "wait"
    /\ LET field == FieldAt(cOp, cPos)
           r == GetOf[field][cChild]
       IN  /\ ExitSeen(cChild, TimeoutOf(field))
           /\ cRes' = AccessorResult(field, r)
           /\ cPy' = IF r.kind = "Ok" THEN [cPy EXCEPT ![field] = Some(r.val)] ELSE cPy
    /\ cAcc' = "ret"
    /\ UNCHANGED <<cOp, cPos, cChild, cOut, cOpts, cSpawns, cCalls, cCells0, cAsked, cPreset>>

\* wait_timeout returns None: child.kill()
CandTimeout ==
    /\ cAcc = "wait"
    /\ LET field == FieldAt(cOp, cPos)
       IN  /\ TimeoutOf(field).some
           /\ ~ExitSeen(cChild, TimeoutOf(field))
    /\ cAcc' = "killed"
    /\ UNCHANGED <<cOp, cPos, cChild, cRes, cOut, cPy, cOpts, cSpawns, cCalls, cCells0, cAsked, cPreset>>

\* child.wait() after the kill, then Err(TimedOut)
CandReap ==
    /\ cAcc = "killed"
    /\ cRes' = AccessorResult(FieldAt(cOp, cPos), GetOf[FieldAt(cOp, cPos)][cChild])
    /\ cAcc' = "ret"
    /\ UNCHANGED <<cOp, cPos, cChild, cOut, cPy, cOpts, cSpawns, cCalls, cCells0, cAsked, cPreset>>

\* the accessor returns to its caller
CandReturn ==
    /\ cAcc = "ret"
    /\ cAcc' = "idle"
    /\ IF cOp # "matches"
       THEN cPos' = "ret" /\ cOut' = cRes.kind
       ELSE IF cPos = "arch"
       THEN /\ cPos' = IF cRes.kind = "Err" THEN "ret" ELSE "arch2"
            /\ cOut' = IF cRes.kind = "Err" THEN "false" ELSE cOut
       ELSE IF cPos = "arch2"
       THEN /\ cPos' = IF cRes.text # cOpts.architecture.val THEN "ret" ELSE "version"
            /\ cOut' = IF cRes.text # cOpts.architecture.val THEN "false" ELSE cOut
       ELSE /\ cPos' = "ret"
            /\ cOut' = IF cRes.kind = "Ok" /\ VersionMatches(cRes.version, cOpts) THEN "true" ELSE "false"
    /\ UNCHANGED <<cOp, cChild, cRes, cPy, cOpts, cSpawns, cCalls, cCells0, cAsked, cPreset>>

\* the operation returns to the caller
CandEnd ==
    /\ cOp # "off"
    /\ cPos = "ret"
    /\ cOp' = "none"
    /\ cPos' = "idle"
    /\ UNCHANGED <<cAcc, cChild, cRes, cOut, cPy, cOpts, cSpawns, cCalls, cCells0, cAsked, cPreset>>

----------------------------------------------------------------------------
(* providers: find_pythons_from_path and the providers' find_pythons *)

\* an entry of a directory: its file name, whether path_is_python holds of
\* it, its file and the children an interpreter at that path spawns
DirEntry(name, python, file, children) ==
    [name |-> name, python |-> python, file |-> file, children |-> children]

\* a directory: read_dir fails, or yields the entries in its order
Dir(path, readable, entries) == [path |-> path, readable |-> readable, entries |-> entries]

\* helpers::path_is_python
PathIsPython(e) == e.python

RECURSIVE FindFromAll(_, _, _, _)
\* the filter_map closure with first_only false: every recognised entry
FindFromAll(dir, as_interpreter, i, found) ==
    IF i > Len(dir.entries) THEN <<>>
    ELSE LET e == dir.entries[i]
             path == PathJoin(dir.path, e.name)
         IN  IF PathIsPython(e)
             THEN LET python == PythonVersion(path, e.file, e.children)
                  IN  <<IF as_interpreter THEN WithInterpreter(python, path) ELSE python>>
                          \o FindFromAll(dir, as_interpreter, i + 1, TRUE)
             ELSE FindFromAll(dir, as_interpreter, i + 1, found)

RECURSIVE FindFrom(_, _, _, _)
\* the filter_map closure of find_pythons_from_path, found being its flag
FindFrom(dir, as_interpreter, i, found) ==
    IF i > Len(dir.entries) THEN <<>>
    ELSE LET e == dir.entries[i]
             path == PathJoin(dir.path, e.name)
         IN  IF ~found /\ PathIsPython(e)
             THEN LET python == PythonVersion(path, e.file, e.children)
                  IN  <<IF as_interpreter THEN WithInterpreter(python, path) ELSE python>>
                          \o FindFrom(dir, as_interpreter, i + 1, TRUE)
             ELSE FindFrom(dir, as_interpreter, i + 1, found)

FindPythonsFromPath(dir, as_interpreter) ==
    IF ~dir.readable THEN <<>> ELSE FindFrom(dir, as_interpreter, 1, FALSE)

RECURSIVE Flatten(_)
\* flat_map(..).collect()
Flatten(lists) == IF lists = <<>> THEN <<>> ELSE Head(lists) \o Flatten(Tail(lists))

\* PathProvider::find_pythons over the directories of PATH
PathFindPythons(provider) ==
    Flatten([i \in 1..Len(provider.paths) |-> FindPythonsFromPath(provider.paths[i], FALSE)])

S_Conda == <<"C", "o", "n", "d", "a", " ", "'">>

\* the closure of CondaProvider::find_pythons on one entry of a root
CondaEnv(env) ==
    IF ~env.is_dir THEN <<>>
    ELSE LET found == FindPythonsFromPath(env.bin, TRUE)
         IN  [i \in 1..Len(found) |->
                 [found[i] EXCEPT !.formatted_name = Some(S_Conda \o env.name \o <<"'">>)]]

CondaRoot(root) ==
    IF ~root.readable THEN <<>>
    ELSE Flatten([i \in 1..Len(root.envs) |-> CondaEnv(root.envs[i])])

\* CondaProvider::find_pythons
CondaFindPythons(provider) ==
    Flatten([i \in 1..Len(provider.roots) |-> CondaRoot(provider.roots[i])])

S_install_bin_python3 ==
    <<"i", "n", "s", "t", "a", "l", "l", "/", "b", "i", "n", "/", "p", "y", "t", "h", "o", "n", "3">>

\* the closure of RyeProvider::find_pythons on one entry of root/py
RyeEntry(e) ==
    LET python == PathJoin(e.path, S_install_bin_python3)
    IN  IF e.is_symlink \/ ~e.exists THEN <<>>
        ELSE <<WithInterpreter(PythonVersion(python, e.file, e.children), python)>>

\* RyeProvider::find_pythons
RyeFindPythons(provider) ==
    IF ~provider.readable THEN <<>>
    ELSE Flatten([i \in 1..Len(provider.entries) |-> RyeEntry(provider.entries[i])])

\* the version manager's install tree: each version's bin directory under the
\* directory-scan policy, with the provider's hint on symlink identity
PyenvVersion(v) ==
    LET found == FindPythonsFromPath(v.bin, TRUE)
    IN  [i \in 1..Len(found) |-> WithKeepSymlink(found[i], v.keep_symlink)]

PyenvFindPythons(provider) ==
    IF ~provider.readable THEN <<>>
    ELSE Flatten([i \in 1..Len(provider.versions) |-> PyenvVersion(provider.versions[i])])

ALL_PROVIDERS == <<"path", "conda", "pyenv", "rye", "asdf">>

\* get_provider: the provider of the host, when its create() gives one
GetProvider(host, name) ==
    IF name \in {"path", "conda", "pyenv", "rye"} /\ host[name].available THEN Some(host[name])
    ELSE NoneOf(host.path)

\* select_providers: names.iter().filter_map(get_provider).collect()
SelectProviders(host, names) ==
    LET got == [i \in 1..Len(names) |-> GetProvider(host, names[i])]
    IN  Flatten([i \in 1..Len(names) |-> IF got[i].some THEN <<got[i].val>> ELSE <<>>])

\* Provider::find_pythons
FindPythons(provider) ==
    IF provider.name = "path" THEN PathFindPythons(provider)
    ELSE IF provider.name = "conda" THEN CondaFindPythons(provider)
    ELSE IF provider.name = "pyenv" THEN PyenvFindPythons(provider)
    ELSE RyeFindPythons(provider)

\* find_all_python_versions
FindAllPythonVersions(providers) ==
    Flatten([i \in 1..Len(providers) |-> FindPythons(providers[i])])

----------------------------------------------------------------------------
(* Finder: find_all, deduplicate_key, deduplicate *)

Finder(resolve_symlinks, same_file, same_interpreter) ==
    [resolve_symlinks |-> resolve_symlinks, same_file |-> same_file,
     same_interpreter |-> same_interpreter]

\* Finder::default, the providers apart
FinderDefault == Finder(FALSE, TRUE, TRUE)

\* find_all, line 73: the candidate is kept when it matches
FilterKeep(m, rest) ==
    IF rest.kind # "ok" THEN rest
    ELSE [kind |-> "ok", seq |-> (IF m.res = "true" THEN <<m.py>> ELSE <<>>) \o rest.seq]

RECURSIVE FilterPythons(_, _, _)
\* one turn of the loop of find_all, m being the result of matches
FilterNext(m, pythons, options, i) ==
    IF m.res = "Hang" THEN [kind |-> "hang", seq |-> <<>>]
    ELSE FilterKeep(m, FilterPythons(pythons, options, i + 1))

\* the loop of find_all: "ok" with the candidates that match, or "hang"
FilterPythons(pythons, options, i) ==
    IF i > Len(pythons) THEN [kind |-> "ok", seq |-> <<>>]
    ELSE FilterNext(Matches(pythons[i], options), pythons, options, i)

\* deduplicate_key, line 84: self.interpreter().unwrap(), a being the result
\* of interpreter()
InterpreterKey(a) ==
    [kind |-> IF a.kind = "Ok" THEN "ok" ELSE IF a.kind = "Err" THEN "panic" ELSE "hang",
     key |-> a.val, py |-> a.py]

\* deduplicate_key, line 87: self.content_hash().unwrap()
HashKey(python, h) == [kind |-> IF h.some THEN "ok" ELSE "panic", key |-> h.val, py |-> python]

\* deduplicate_key with the weakest enabled rule winning
DeduplicateKeyWeakestFirst(finder, python) ==
    IF finder.resolve_symlinks /\ ~python.keep_symlink
    THEN [kind |-> "ok", key |-> RealPath(python), py |-> python]
    ELSE IF ~finder.same_file THEN HashKey(python, ContentHash(python))
    ELSE IF ~finder.same_interpreter THEN InterpreterKey(Access("interpreter", python))
    ELSE [kind |-> "ok", key |-> python.executable, py |-> python]

\* deduplicate_key: "ok" with the key and the candidate as the call leaves
\* it, "panic" when an unwrap meets an Err, "hang" when interpreter() never returns
DeduplicateKey(finder, python) ==
    IF ~finder.same_interpreter THEN InterpreterKey(Access("interpreter", python))
    ELSE IF ~finder.same_file THEN HashKey(python, ContentHash(python))
    ELSE IF finder.resolve_symlinks /\ ~python.keep_symlink
    THEN [kind |-> "ok", key |-> RealPath(python), py |-> python]
    ELSE [kind |-> "ok", key |-> python.executable, py |-> python]

BoolKey(b) == IF b THEN 1 ELSE 0

\* helpers::suffix_preference
SuffixPreference(p) == p.file.suffix

\* the key of sort_by_cached_key with the path length ascending
PreOrderKeyShortFirst(p) ==
    <<BoolKey(p.file.is_symlink), SuffixPreference(p), Len(p.executable)>>

\* the key of sort_by_cached_key, lines 100-104
PreOrderKey(p) ==
    <<BoolKey(p.file.is_symlink), SuffixPreference(p), 0 - Len(p.executable)>>

\* a stable sort: s[i] is placed after the elements before it in the order,
\* and after the equal elements that precede it in s
StableSort(s, Before(_, _)) ==
    LET n == Len(s)
        pos(i) == 1 + Cardinality({j \in 1..n : Before(s[j], s[i]) \/ (~Before(s[i], s[j]) /\ j < i)})
    IN  [k \in 1..n |-> s[CHOOSE i \in 1..n : pos(i) = k]]

PreOrderBefore(a, b) == CompareTuple(PreOrderKey(a), PreOrderKey(b), 1) = "Less"

\* the comparator of sort_by with a and b in their own places
RankCompareAscending(a, b) ==
    LET v == CompareVersion(a.version.val, b.version.val)
    IN  IF v # "Equal" THEN v
        ELSE CompareTuple(<<Len(a.executable)>>, <<Len(b.executable)>>, 1)

\* the comparator of sort_by, lines 112-115: (b.version, b.len).cmp((a.version, a.len))
RankCompare(a, b) ==
    LET v == CompareVersion(b.version.val, a.version.val)
    IN  IF v # "Equal" THEN v
        ELSE CompareTuple(<<Len(b.executable)>>, <<Len(a.executable)>>, 1)

RankBefore(a, b) == RankCompare(a, b) = "Less"

\* result.entry(key): whether the key is in the map
Occupied(map, key) == \E j \in 1..Len(map) : map[j][1] = key

\* the keys computed, each with the candidate it was computed for
DedupKeys(python, k, rest) ==
    [kind |-> rest.kind, map |-> rest.map, keys |-> <<<<python, k.key>>>> \o rest.keys]

RECURSIVE DedupLoop(_, _, _, _)
\* entry(key).or_insert(version), k being the result of deduplicate_key
DedupEntry(finder, versions, i, map, k) ==
    IF k.kind # "ok" THEN [kind |-> k.kind, map |-> map, keys |-> <<>>]
    ELSE DedupKeys(versions[i], k,
                   DedupLoop(finder, versions, i + 1,
                             IF Occupied(map, k.key) THEN map ELSE Append(map, <<k.key, k.py>>)))

\* the loop over versions.iter_mut(), the map kept as the sequence of its
\* <<key, value>> in the order of insertion
DedupLoop(finder, versions, i, map) ==
    IF i > Len(versions) THEN [kind |-> "ok", map |-> map, keys |-> <<>>]
    ELSE DedupEntry(finder, versions, i, map, DeduplicateKey(finder, versions[i]))

\* the orders in which into_values can yield the values of the map
IntoValues(map) ==
    {[i \in 1..Len(map) |-> map[o[i]][2]] : o \in Orders(1..Len(map))}

\* into_values and sort_by, lines 111-116: got is version() on each value of
\* the map, which the comparator unwraps once there are two values
DeduplicateSort(loop, got) ==
    IF Len(got) >= 2 /\ \E j \in 1..Len(got) : got[j].kind # "Ok"
    THEN [kind |-> "panic", outs |-> {<<>>}, keys |-> loop.keys]
    ELSE [kind |-> "ok",
          outs |-> {StableSort(py_versions, RankBefore) :
                       py_versions \in IntoValues([j \in 1..Len(got) |->
                           <<loop.map[j][1],
                             IF Len(got) >= 2 THEN got[j].py ELSE loop.map[j][2]>>])},
          keys |-> loop.keys]

\* deduplicate after its loop
DeduplicateMap(loop) ==
    IF loop.kind # "ok" THEN [kind |-> loop.kind, outs |-> {<<>>}, keys |-> loop.keys]
    ELSE DeduplicateSort(loop, [j \in 1..Len(loop.map) |-> Access("version", loop.map[j][2])])

\* deduplicate: "ok" with every vector it can return, "panic" or "hang"
Deduplicate(finder, versions) ==
    DeduplicateMap(DedupLoop(finder, StableSort(versions, PreOrderBefore), 1, <<>>))

\* .first().cloned()
First(v) == IF v = <<>> THEN NoneOf(PythonVersion(<<>>, NoFile, NoChildren)) ELSE Some(v[1])

----------------------------------------------------------------------------
(* Specification SpecPy: Finder::find_all and Finder::find on a host *)

S_a == <<"/", "a">>
S_b == <<"/", "b">>
S_s == <<"/", "s">>
S_n == <<"/", "n">>
S_o == <<"/", "o">>
S_g == <<"/", "g">>
S_k == <<"/", "k">>
S_c_e_bin == <<"/", "c", "/", "e", "/", "b", "i", "n">>
S_r_py_x == <<"/", "r", "/", "p", "y", "/", "x">>
S_r_py_l == <<"/", "r", "/", "p", "y", "/", "l">>
S_y_v_bin == <<"/", "y", "/", "v", "/", "b", "i", "n">>
N_python312 == <<"p", "y", "t", "h", "o", "n", "3", ".", "1", "2">>
N_readme == <<"r", "e", "a", "d", "m", "e">>
N_e == <<"e">>
H_1 == <<"h", "1">>
H_2 == <<"h", "2">>

ChildrenOf(version, interpreter, architecture) ==
    [version |-> version, interpreter |-> interpreter, architecture |-> architecture]

\* an interpreter 3.11.4, 64bit, reporting itself as /b/python3
Cpython311 == ChildrenOf(Exits(O_3_11_4), Exits(O_b_python3), Exits(O_64bit))

X_readme == DirEntry(N_readme, FALSE, NoFile, NoChildren)
X_a_python3 ==
    DirEntry(N_python3, TRUE, File(FALSE, 0, Some(P_a_python3), Some(H_1)),
             ChildrenOf(Exits(O_3_11_4_plus), Exits(O_a_python3), Exits(O_64bit)))
X_b_python3 == DirEntry(N_python3, TRUE, File(FALSE, 0, Some(P_b_python3), Some(H_1)), Cpython311)
X_b_python312 ==
    DirEntry(N_python312, TRUE, File(FALSE, 1, Some(P_b_python3), Some(H_2)), Cpython311)
X_s_python == DirEntry(N_python, TRUE, File(TRUE, 0, Some(P_b_python3), Some(H_1)), Cpython311)
X_n_python312 ==
    DirEntry(N_python312, TRUE, File(FALSE, 1, Some(PathJoin(S_n, N_python312)), Some(H_2)),
             ChildrenOf(Exits(O_3_12_0rc1), C_never, Exits(O_32bit)))
X_o_python ==
    DirEntry(N_python, TRUE, File(FALSE, 0, None, None),
             ChildrenOf(Exits(O_2_7), C_fails, C_never))
X_k_python3 ==
    DirEntry(N_python3, TRUE, File(FALSE, 0, Some(PathJoin(S_k, N_python3)), Some(H_2)),
             ChildrenOf(Exits(O_garbage), C_fails, C_fails))

D_a == Dir(S_a, TRUE, <<X_a_python3>>)
D_b == Dir(S_b, TRUE, <<X_readme, X_b_python3, X_b_python312>>)
D_s == Dir(S_s, TRUE, <<X_s_python>>)
D_n == Dir(S_n, TRUE, <<X_n_python312>>)
D_o == Dir(S_o, TRUE, <<X_o_python>>)
D_k == Dir(S_k, TRUE, <<X_k_python3>>)
D_g == Dir(S_g, FALSE, <<>>)

DirCatalog == {D_a, D_b, D_s, D_n, D_o, D_k, D_g}

RECURSIVE SeqsUpTo(_, _)
\* the sequences of at most n elements of a set
SeqsUpTo(set, n) ==
    IF n = 0 THEN {<<>>}
    ELSE LET shorter == SeqsUpTo(set, n - 1)
         IN  shorter \cup {Append(s, x) : s \in {t \in shorter : Len(t) = n - 1}, x \in set}

PathProvider(paths) == [name |-> "path", available |-> TRUE, paths |-> paths]

CondaProvider(available, roots) == [name |-> "conda", available |-> available, roots |-> roots]

RyeProvider(available, readable, entries) ==
    [name |-> "rye", available |-> available, readable |-> readable, entries |-> entries]

PyenvProvider(available, readable, versions) ==
    [name |-> "pyenv", available |-> available, readable |-> readable, versions |-> versions]

Condas ==
    {CondaProvider(FALSE, <<>>),
     CondaProvider(TRUE, <<[readable |-> FALSE, envs |-> <<>>],
                           [readable |-> TRUE,
                            envs |-> <<[name |-> N_readme, is_dir |-> FALSE, bin |-> D_g],
                                       [name |-> N_e, is_dir |-> TRUE,
                                        bin |-> Dir(S_c_e_bin, TRUE, <<X_b_python3>>)]>>]>>)}

Ryes ==
    {RyeProvider(FALSE, FALSE, <<>>),
     RyeProvider(TRUE, FALSE, <<>>),
     RyeProvider(TRUE, TRUE,
                 <<[path |-> S_r_py_l, is_symlink |-> TRUE, exists |-> TRUE,
                    file |-> X_b_python3.file, children |-> Cpython311],
                   [path |-> S_r_py_x, is_symlink |-> FALSE, exists |-> TRUE,
                    file |-> X_n_python312.file, children |-> X_n_python312.children]>>)}

Pyenvs ==
    {PyenvProvider(FALSE, FALSE, <<>>),
     PyenvProvider(TRUE, TRUE,
                   <<[bin |-> Dir(S_y_v_bin, TRUE, <<X_s_python>>), keep_symlink |-> TRUE]>>)}

Host(path, conda, rye, pyenv) == [path |-> path, conda |-> conda, rye |-> rye, pyenv |-> pyenv]

\* every PATH of at most MaxPathDirs directories on a host with no other
\* provider, and shorter ones with every other provider
PyHosts ==
    {Host(PathProvider(p), CondaProvider(FALSE, <<>>), RyeProvider(FALSE, FALSE, <<>>),
          PyenvProvider(FALSE, FALSE, <<>>)) : p \in SeqsUpTo(DirCatalog, MaxPathDirs)}
        \cup {Host(PathProvider(p), c, r, y) :
                 p \in SeqsUpTo({D_a, D_n}, MaxPathDirs - 1), c \in Condas, r \in Ryes, y \in Pyenvs}

Finders == {Finder(rs, sf, si) : rs \in BOOLEAN, sf \in BOOLEAN, si \in BOOLEAN}

NoOptions ==
    PyMatchOptions(NoneOf(0), NoneOf(0), NoneOf(0), NoneOf(FALSE), NoneOf(FALSE), None, None)

PyQueries ==
    {NoOptions, [NoOptions EXCEPT !.major = Some(3)], [NoOptions EXCEPT !.name = Some(N_python3)],
     [NoOptions EXCEPT !.architecture = Some(S_64bit)]}

PyIdle ==
    /\ pPc = "off"
    /\ pHost = Host(PathProvider(<<>>), CondaProvider(FALSE, <<>>), RyeProvider(FALSE, FALSE, <<>>),
                    PyenvProvider(FALSE, FALSE, <<>>))
    /\ pFinder = FinderDefault
    /\ pOpts = NoOptions
    /\ pFound = <<>>
    /\ pFiltered = <<>>
    /\ pKeys = <<>>
    /\ pOut = <<>>
    /\ pOut2 = <<>>
    /\ pFirst = First(<<>>)

PyInit ==
    /\ pPc = "start"
    /\ pHost \in PyHosts
    /\ pFinder \in Finders
    /\ pOpts \in PyQueries
    /\ pFound = <<>>
    /\ pFiltered = <<>>
    /\ pKeys = <<>>
    /\ pOut = <<>>
    /\ pOut2 = <<>>
    /\ pFirst = First(<<>>)

\* find_all, line 68: the providers selected by Finder::default enumerate
PyFindAllPythonVersions ==
    /\ pPc = "start"
    /\ pFound' = FindAllPythonVersions(SelectProviders(pHost, ALL_PROVIDERS))
    /\ pPc' = "found"
    /\ UNCHANGED <<pHost, pFinder, pOpts, pFiltered, pKeys, pOut, pOut2, pFirst>>

\* find_all, lines 69-74
PyFilter ==
    /\ pPc = "found"
    /\ LET filtered == FilterPythons(pFound, pOpts, 1)
       IN  /\ pPc' = IF filtered.kind = "ok" THEN "filtered" ELSE "blocked"
           /\ pFiltered' = filtered.seq
    /\ UNCHANGED <<pHost, pFinder, pOpts, pFound, pKeys, pOut, pOut2, pFirst>>

\* find_all, line 75, and find taking the first of it
PyDeduplicate ==
    /\ pPc = "filtered"
    /\ LET d == Deduplicate(pFinder, pFiltered)
       IN  /\ pPc' = IF d.kind = "ok" THEN "done" ELSE IF d.kind = "panic" THEN "panic" ELSE "blocked"
           /\ pKeys' = d.keys
           /\ \E out \in d.outs : pOut' = out /\ pFirst' = First(out)
    /\ UNCHANGED <<pHost, pFinder, pOpts, pFound, pFiltered, pOut2>>

\* deduplicate applied to the vector it returned
PyDeduplicateAgain ==
    /\ pPc = "done"
    /\ LET d == Deduplicate(pFinder, pOut)
       IN  /\ pPc' = IF d.kind = "ok" THEN "again" ELSE IF d.kind = "panic" THEN "panic" ELSE "blocked"
           /\ \E out \in d.outs : pOut2' = out
    /\ UNCHANGED <<pHost, pFinder, pOpts, pFound, pFiltered, pKeys, pOut, pFirst>>

----------------------------------------------------------------------------
(* The specifications *)

InitBoost == BstInit /\ CmpIdle /\ FltIdle /\ RunIdle /\ CandIdle /\ PyIdle
NextBoost == BstCompare /\ UNCHANGED <<cmpVars, fltVars, runVars, candVars, pyVars>>
SpecBoost == InitBoost /\ [][NextBoost]_vars

InitCmp == CmpInit /\ FltIdle /\ BstIdle /\ RunIdle /\ CandIdle /\ PyIdle
NextCmp == CmpCompare /\ UNCHANGED <<fltVars, bstVars, runVars, candVars, pyVars>>
SpecCmp == InitCmp /\ [][NextCmp]_vars

InitFilter == FltInit /\ CmpIdle /\ BstIdle /\ RunIdle /\ CandIdle /\ PyIdle
NextFilter == FltFilterVer /\ UNCHANGED <<cmpVars, bstVars, runVars, candVars, pyVars>>
SpecFilter == InitFilter /\ [][NextFilter]_vars

InitCand == CandInit /\ CmpIdle /\ FltIdle /\ BstIdle /\ RunIdle /\ PyIdle
NextCand ==
    \/ CandBegin /\ UNCHANGED <<cmpVars, fltVars, bstVars, runVars, pyVars>>
    \/ CandMatchesName /\ UNCHANGED <<cmpVars, fltVars, bstVars, runVars, pyVars>>
    \/ CandCall /\ UNCHANGED <<cmpVars, fltVars, bstVars, runVars, pyVars>>
    \/ CandChildExits /\ UNCHANGED <<cmpVars, fltVars, bstVars, runVars, pyVars>>
    \/ CandTimeout /\ UNCHANGED <<cmpVars, fltVars, bstVars, runVars, pyVars>>
    \/ CandReap /\ UNCHANGED <<cmpVars, fltVars, bstVars, runVars, pyVars>>
    \/ CandReturn /\ UNCHANGED <<cmpVars, fltVars, bstVars, runVars, pyVars>>
    \/ CandEnd /\ UNCHANGED <<cmpVars, fltVars, bstVars, runVars, pyVars>>
SpecCand == InitCand /\ [][NextCand]_vars

\* execution is synchronous: the thread takes its next step whenever it has one
SpecCandLive == InitCand /\ [][NextCand]_vars /\ WF_vars(NextCand)

InitPy == PyInit /\ CmpIdle /\ FltIdle /\ BstIdle /\ RunIdle /\ CandIdle
NextPy ==
    \/ PyFindAllPythonVersions /\ UNCHANGED <<cmpVars, fltVars, bstVars, runVars, candVars>>
    \/ PyFilter /\ UNCHANGED <<cmpVars, fltVars, bstVars, runVars, candVars>>
    \/ PyDeduplicate /\ UNCHANGED <<cmpVars, fltVars, bstVars, runVars, candVars>>
    \/ PyDeduplicateAgain /\ UNCHANGED <<cmpVars, fltVars, bstVars, runVars, candVars>>
SpecPy == InitPy /\ [][NextPy]_vars

Init == RunInit /\ CmpIdle /\ FltIdle /\ BstIdle /\ CandIdle /\ PyIdle
Next ==
    \/ RunGetOperatingSystem /\ UNCHANGED <<cmpVars, fltVars, bstVars, candVars, pyVars>>
    \/ RunCollateJvms /\ UNCHANGED <<cmpVars, fltVars, bstVars, candVars, pyVars>>
    \/ RunFilter /\ UNCHANGED <<cmpVars, fltVars, bstVars, candVars, pyVars>>
Spec == Init /\ [][Next]_vars

----------------------------------------------------------------------------
(* Reference order on versions: the integer components of the normalised   *)
(* string, compared lexicographically, a proper prefix being smaller.      *)

RECURSIVE Pow10(_)
Pow10(n) == IF n = 0 THEN 1 ELSE 10 * Pow10(n - 1)

RECURSIVE SumTo(_, _)
SumTo(f, n) == IF n = 0 THEN 0 ELSE f[n] + SumTo(f, n - 1)

RefNumber(s) == SumTo([i \in 1..Len(s) |-> DigitVal(s[i]) * Pow10(Len(s) - i)], Len(s))

RefStripped(v) ==
    IF Len(v) >= 2 /\ v[1] = "1" /\ v[2] = "." THEN [i \in 1..(Len(v) - 2) |-> v[i + 2]] ELSE v

\* the integers between the separators of s
RefRawInts(s) ==
    LET cuts == {0, Len(s) + 1} \cup {i \in 1..Len(s) : s[i] \in {".", "_"}}
        Cut(k) == CHOOSE i \in cuts : Cardinality({j \in cuts : j < i}) = k - 1
    IN  [k \in 1..(Cardinality(cuts) - 1) |-> RefNumber(SubSeq(s, Cut(k) + 1, Cut(k + 1) - 1))]

RefInts(v) == RefRawInts(RefStripped(v))

RefCompareInts(x, y) ==
    IF x = y THEN "Equal"
    ELSE IF \E k \in 1..Len(y) :
                /\ \A j \in 1..(k - 1) : j <= Len(x) /\ x[j] = y[j]
                /\ (k > Len(x) \/ x[k] < y[k])
         THEN "Less"
         ELSE "Greater"

RefCompare(a, b) == RefCompareInts(RefInts(a), RefInts(b))

\* non-empty runs of digits separated by "." or "_"
RefWellFormed(v) ==
    /\ v # <<>>
    /\ \A i \in 1..Len(v) : IsDigit(v[i]) \/ v[i] \in {".", "_"}
    /\ IsDigit(v[1]) /\ IsDigit(v[Len(v)])
    /\ \A i \in 1..(Len(v) - 1) : IsDigit(v[i]) \/ IsDigit(v[i + 1])

Reverse(o) == CASE o = "Less" -> "Greater" [] o = "Greater" -> "Less" [] OTHER -> o

AtMost(o) == o \in {"Less", "Equal"}

\* C2: on well-formed version strings compare_version_values is the reference
\* order (normalise, then compare the integer components, a proper prefix being
\* smaller): it agrees with it on every pair, compare(b, a) is the reverse of
\* compare(a, b), it is transitive, and compare("1.8", "8") = Equal,
\* compare("1.8.0_292", "1.8.0.292") = Equal, compare("11", "11.0.2") = Less.
C2_CompareIsReferenceOrder ==
    cmpPc = "done" =>
        /\ r12 = RefCompare(v1, v2)
        /\ r21 = Reverse(r12)
        /\ \A c \in WellFormedVersions :
              LET r2c == CompareVersionValues(v2, c)
                  r1c == CompareVersionValues(v1, c)
              IN  /\ (AtMost(r12) /\ AtMost(r2c)) => AtMost(r1c)
                  /\ (r12 = "Equal" /\ r2c = "Equal") => r1c = "Equal"
        /\ (v1 = V_1_8 /\ v2 = V_8) => r12 = "Equal"
        /\ (v1 = V_1_8_0_292 /\ v2 = V_1_8_0d292) => r12 = "Equal"
        /\ (v1 = V_11 /\ v2 = V_11_0_2) => r12 = "Less"

C2_Witness ==
    cmpPc = "done" /\ v1 = V_1_8_0_292 /\ v2 = V_8_0_292 /\ r12 = "Equal" /\ r21 = "Equal"

----------------------------------------------------------------------------
(* filter_ver *)

RefBool(b) == IF b THEN "true" ELSE "false"

RefFirst(x, d) == SubSeq(x, 1, IF d < Len(x) THEN d ELSE Len(x))

\* what the depth-limited rule gives for candidate version c and query version q
RefSatisfiesSpec(c, q) ==
    LET minimum == Contains(q, <<"+">>)
        wanted == RefRawInts(Replace(q, <<"+">>, <<>>))
        have == RefFirst(RefInts(c), Len(wanted))
    IN  IF minimum THEN RefBool(RefCompareInts(have, wanted) \in {"Equal", "Greater"})
        ELSE RefBool(have = wanted)

\* C3: filter_ver compares the first d components of the candidate's normalised
\* version (leading "1." stripped, "_" a separator) with the d components of the
\* query version: equal without the marker, greater-or-equal with "+"; so
\* ("21.0.1","17+") passes, ("11","17+") fails, ("11.2","11") passes.
\* Stated for query versions not themselves in legacy form.
C3_DepthLimitedMatch ==
    (/\ fltPc = "done"
     /\ fVer.some
     /\ RefWellFormed(Replace(fVer.val, <<"+">>, <<>>))
     /\ ~StartsWith(fVer.val, <<"1", ".">>)
     /\ RefWellFormed(fJvm.version))
        => fRes = RefSatisfiesSpec(fJvm.version, fVer.val)

\* C4: a candidate whose version is "1.X.Y_Z" passes filter_ver for a query
\* version exactly when a candidate whose version is "X.Y.Z" passes it.
C4_LegacyModernInterchangeable ==
    fltPc = "done" =>
        \A p \in LegacyPairs :
            fJvm.version = p[1] => fRes = FilterVer(fVer, Jvm(p[2], <<>>, <<>>, <<>>))

\* C5: a candidate whose version is empty or has a non-numeric segment fails
\* filter_ver for every query version.
C5_UnparseableFailsEveryVersionQuery ==
    (/\ fltPc = "done"
     /\ fVer.some
     /\ RefWellFormed(Replace(fVer.val, <<"+">>, <<>>))
     /\ ~RefWellFormed(fJvm.version)) => fRes = "false"

\* C6: for the bare "+" query version filter_ver returns a boolean, the same
\* one for every candidate.
C6_BareMarkerUniformBoolean ==
    (fltPc = "done" /\ fVer = Some(<<"+">>)) =>
        /\ fRes \in {"true", "false"}
        /\ \A c \in CandidateVersions : FilterVer(fVer, Jvm(c, <<>>, <<>>, <<>>)) = fRes

----------------------------------------------------------------------------
(* java::run *)

\* C1: no fault propagates past the top-level discovery call: run never ends in
\* a panic, whatever the host, the directory and the query.
C1_NoFaultPastRun == pc # "panic"

RefValidJvm(j) == RefWellFormed(j.version)

\* C7: in the vector collate_jvms returns, candidates with an invalid version
\* come after every candidate with a valid one, the valid ones are in
\* descending version order, and the sort never faults.
C7_InvalidVersionsLast ==
    /\ fault # "sort"
    /\ pc \in {"filter", "done"} =>
          \A i, j \in 1..Len(jvms) :
              i < j => /\ ~(~RefValidJvm(jvms[i]) /\ RefValidJvm(jvms[j]))
                       /\ (RefValidJvm(jvms[i]) /\ RefValidJvm(jvms[j]))
                              => RefCompare(jvms[i].version, jvms[j].version) # "Less"

RefScenarioHost ==
    /\ uname = Uname(TRUE, TRUE, U_linux_x86_64)
    /\ osRelease = OsRelease(TRUE, TRUE, Some(S_ubuntu))
    /\ jvmDir = [readable |-> TRUE, entries |-> {E_java8, E_java17}]
    /\ args = MatchOptions(None, None, Some(V_11_plus))

\* C9: with /usr/lib/jvm holding java-8-openjdk-amd64 (no release file) and
\* java-17-openjdk-amd64 (release: 17.0.2, amd64) on an x86_64 host, the query
\* version "11+" returns exactly the second candidate, architecture x86_64.
C9_ScenarioYieldsNormalisedCandidate ==
    RefScenarioHost =>
        /\ pc # "panic"
        /\ pc = "done" =>
              result = <<Jvm(V_17_0_2, N_java17, S_x86_64, PathJoin(S_usr_lib_jvm, N_java17))>>

RefFields(stdout) == Split(stdout, " ")

RefRecognised(os_name, arch) ==
    \/ ToAsciiLower(os_name[1]) = "d" /\ EqIgnoreAsciiCase(os_name, S_Darwin)
    \/ /\ EqIgnoreAsciiCase(os_name, S_Linux)
       /\ \E known \in {S_x86_64, S_i386, S_i586, S_i686, S_aarch64, S_arm64} :
              EqIgnoreAsciiCase(arch, known)

\* the identification output has fewer than two fields, or names an
\* unrecognised OS / architecture combination
RefHostUndetected ==
    \/ Len(RefFields(uname.stdout)) < 2
    \/ LET f == RefFields(uname.stdout)
       IN  f[1] = <<>> \/ ~RefRecognised(TrimString(f[1]), TrimString(f[2]))

\* C10: when the host is not detected, get_operating_system yields none and run
\* returns the empty vector without enumerating a candidate source.
C10_FailClosedHostDetection ==
    (uname.spawned /\ uname.utf8 /\ RefHostUndetected) =>
        /\ pc \in {"start", "done"}
        /\ ~enumerated
        /\ result = <<>>

\* C8: for two candidates whose versions compare equal, the one whose
\* architecture is the host default sorts strictly ahead of one whose
\* architecture is not; for two candidates whose versions differ, the higher
\* version sorts first whatever the architectures; and the comparator is
\* antisymmetric and transitive.
C8_ArchitectureBreaksTiesOnly ==
    bstPc = "done" =>
        LET versions == IF RefWellFormed(bA.version) /\ RefWellFormed(bB.version)
                        THEN RefCompare(bA.version, bB.version)
                        ELSE "undefined"
        IN  /\ (versions = "Equal" /\ bA.architecture = bArch /\ bB.architecture # bArch)
                  => bAB = "Less" /\ bSorted = <<bA, bB>>
            /\ (versions = "Equal" /\ (bA.architecture = bArch <=> bB.architecture = bArch))
                  => bAB = "Equal" /\ bSorted = <<bB, bA>>
            /\ versions = "Greater" => bAB = "Less" /\ bSorted = <<bA, bB>>
            /\ versions = "Less" => bAB = "Greater" /\ bSorted = <<bB, bA>>
            /\ bBA = Reverse(bAB)
            /\ \A c \in BoostJvms :
                  LET rBC == CompareBoostingArchitecture(bB, c, bArch)
                      rAC == CompareBoostingArchitecture(bA, c, bArch)
                  IN  /\ (AtMost(bAB) /\ AtMost(rBC)) => AtMost(rAC)
                      /\ (AtMost(bAB) /\ AtMost(rBC) /\ "Less" \in {bAB, rBC}) => rAC = "Less"

C8_Witness ==
    /\ bstPc = "done"
    /\ bA = Jvm(V_17, <<>>, S_x86_64, <<>>)
    /\ bB = Jvm(V_17, <<>>, S_aarch64, <<>>)
    /\ bArch = S_x86_64
    /\ bAB = "Less"
    /\ bSorted = <<bA, bB>>

----------------------------------------------------------------------------
(* The Python matcher and the lazily resolved fields, under SpecCand *)

\* the constraints the options specify, each on the cell as matches left it
RefConstraints(p, options) ==
    /\ options.name.some => FileName(p.executable) = options.name.val
    /\ options.architecture.some =>
          p.architecture.some /\ p.architecture.val = options.architecture.val
    /\ (options.major.some \/ options.minor.some \/ options.patch.some
            \/ options.pre.some \/ options.dev.some) =>
          p.version.some /\ VersionMatches(p.version.val, options)

\* C11: matches returns true exactly when every constraint the options
\* specify holds of the candidate; a field the options leave out constrains
\* nothing, even when the candidate's version cannot be resolved.
C11_MatchesIsConjunctionOfSpecified ==
    (cOp = "matches" /\ cPos = "ret") => ((cOut = "true") <=> RefConstraints(cPy, cOpts))

\* C15: over any sequence of accessor calls on a candidate the resolver of
\* each field runs at most once, whether it succeeded or failed, and the
\* resolver of a preset field never runs.
C15_ResolverRunsAtMostOnce ==
    \A f \in Fields : cSpawns[f] <= 1 /\ (f \in cPreset => cSpawns[f] = 0)

\* C16: every accessor call and every call of matches eventually returns,
\* whatever the child does, since each wait for a child is bounded.
C16_EveryOperationReturns ==
    (cOp \in Fields \cup {"matches"}) ~> (cOp = "none")

RefArchitectureHolds(p, options) ==
    ~options.architecture.some
        \/ (p.architecture.some /\ p.architecture.val = options.architecture.val)

\* C17: during matches no accessor is called while the name constraint
\* fails, and the cells stay as they were; version() is not called while the
\* architecture constraint fails; both ways matches returns false.
C17_ShortCircuitNameArchitectureVersion ==
    cOp = "matches" =>
        /\ ~RefConstraints(cPy, [cOpts EXCEPT !.architecture = None, !.major = NoneOf(0),
                                              !.minor = NoneOf(0), !.pre = NoneOf(FALSE)])
              => /\ cAsked = {}
                 /\ Cells(cPy) = cCells0
                 /\ cPos = "ret" => cOut = "false"
        /\ ~RefArchitectureHolds(cPy, cOpts)
              => /\ "version" \notin cAsked
                 /\ cPy.version = cCells0.version
                 /\ cPos = "ret" => cOut = "false"

\* matches has returned false on a name mismatch, the options asking for an
\* architecture the candidate has not resolved
C17_Witness ==
    /\ cOp = "matches"
    /\ cPos = "ret"
    /\ cOpts.name.some /\ FileName(cPy.executable) # cOpts.name.val
    /\ cOpts.architecture.some
    /\ ~cPy.architecture.some

----------------------------------------------------------------------------
(* Provider and source failures *)

\* C12: a source that cannot be listed contributes no candidate and
\* discovery still returns; for the JVM directory: when read_dir fails on
\* it, run does not panic.
C12_UnlistableJvmDirectoryIsolated ==
    (enumerated /\ ~jvmDir.readable) => pc # "panic"

----------------------------------------------------------------------------
(* Deduplication and ranking, under SpecPy *)

\* C13: deduplicate applied to its own output returns that output.
C13_DeduplicateIdempotent ==
    pPc = "again" => pOut2 = pOut

\* C14: the candidates that matched, the options and the flags determine
\* the sequence find_all returns: every vector deduplicate can return for
\* them is the one it returned; and likewise the jvms found, the host's
\* architecture and the options determine the vector java::run returns.
C14_ResultOrderDetermined ==
    /\ pPc = "done" => Deduplicate(pFinder, pFiltered).outs = {pOut}
    /\ pc = "done" =>
          \A order \in Orders(CollateSet(os, jvmDir).jvms) :
              LET sorted == SortByBoostingArchitecture(order, os.architecture)
              IN  sorted.ok => FilterJvms(args, sorted.seq, 1).seq = result

\* p comes before q in the pre-ordering: non-symlink before symlink, then
\* the smaller suffix preference, then the longer path
RefPrecedes(p, q) ==
    \/ ~p.file.is_symlink /\ q.file.is_symlink
    \/ /\ p.file.is_symlink = q.file.is_symlink
       /\ \/ p.file.suffix < q.file.suffix
          \/ p.file.suffix = q.file.suffix /\ Len(p.executable) > Len(q.executable)

RefTied(p, q) ==
    /\ p.file.is_symlink = q.file.is_symlink
    /\ p.file.suffix = q.file.suffix
    /\ Len(p.executable) = Len(q.executable)

RefKey(finder, p) ==
    IF ~finder.same_interpreter
    THEN (IF p.interpreter.some THEN p.interpreter.val ELSE Trim(p.children.interpreter.stdout))
    ELSE IF ~finder.same_file THEN p.file.hash.val
    ELSE IF finder.resolve_symlinks /\ ~p.keep_symlink /\ p.file.real.some THEN p.file.real.val
    ELSE p.executable

\* C19: the key deduplicate_key gives a candidate is the interpreter path
\* when same_interpreter is off, else the content hash when same_file is
\* off, else the real path when resolve_symlinks is on and the candidate is
\* not keep_symlink, else (as with the default flags) the discovered path.
C19_KeyByStrictestRule ==
    /\ \A i \in 1..Len(pKeys) : pKeys[i][2] = RefKey(pFinder, pKeys[i][1])
    /\ pFinder = FinderDefault => \A i \in 1..Len(pKeys) : pKeys[i][2] = pKeys[i][1].executable

\* with resolve_symlinks alone on, a candidate has got its real path for
\* key and a keep_symlink candidate its discovered path, the two differing
C19_Witness ==
    /\ pPc = "done"
    /\ pFinder = Finder(TRUE, TRUE, TRUE)
    /\ \E i, j \in 1..Len(pKeys) :
          /\ ~pKeys[i][1].keep_symlink /\ pKeys[i][2] # pKeys[i][1].executable
          /\ pKeys[j][1].keep_symlink /\ pKeys[j][1].file.real.val # pKeys[j][1].executable

\* p ranks at least as high as q: the later version, or the same version
\* and a path at least as long
RefRanksAtLeast(p, q) ==
    LET v == CompareVersion(p.version.val, q.version.val)
    IN  v = "Greater" \/ (v = "Equal" /\ Len(p.executable) >= Len(q.executable))

\* C20: what find_all returns descends by (version, path length), and find
\* returns its first element, of maximal version, or None when it is empty.
C20_RankedByVersionThenPathLength ==
    pPc = "done" =>
        /\ \A i \in 1..(Len(pOut) - 1) : RefRanksAtLeast(pOut[i], pOut[i + 1])
        /\ pFirst.some <=> pOut # <<>>
        /\ pFirst.some =>
              /\ \E i \in 1..Len(pOut) : pOut[i] = pFirst.val
              /\ \A i \in 1..Len(pOut) :
                    CompareVersion(pFirst.val.version.val, pOut[i].version.val) # "Less"

\* find_all has returned candidates of two versions, and two of one version
\* with paths of different lengths
C20_Witness ==
    /\ pPc = "done"
    /\ \E i, j \in 1..Len(pOut) :
          CompareVersion(pOut[i].version.val, pOut[j].version.val) = "Greater"
    /\ \E i, j \in 1..Len(pOut) :
          /\ CompareVersion(pOut[i].version.val, pOut[j].version.val) = "Equal"
          /\ Len(pOut[i].executable) > Len(pOut[j].executable)

----------------------------------------------------------------------------
(* The fallback on the directory's name *)

\* the architecture names of the fallback in their normal form
RefNormalArchitecture(a) ==
    IF a = S_amd64 THEN S_x86_64 ELSE IF a = S_i386 THEN S_x86 ELSE a

\* C21: once collate_jvms has returned, every directory without a release
\* file whose name reads java-<version>-<vendor>-<architecture> has given a
\* candidate with that version and the architecture in its normal form, and
\* no name with too few parts has made collate_jvms fault.
C21_FallbackParsesDirectoryName ==
    /\ pc = "filter" =>
          \A e \in jvmDir.entries :
              (e.kind = "dir" /\ e.release.kind = "none"
                  /\ Len(Split(e.name, "-")) >= 4 /\ Split(e.name, "-")[1] = S_java) =>
                  \E k \in 1..Len(jvms) :
                      /\ jvms[k].name = e.name
                      /\ jvms[k].version = Split(e.name, "-")[2]
                      /\ jvms[k].architecture = RefNormalArchitecture(Split(e.name, "-")[4])
    /\ fault # "folder_name"

----------------------------------------------------------------------------
(* The directory-scan policy *)

\* the places of the recognised interpreters among the entries of a directory
RefInterpreters(dir) == {i \in 1..Len(dir.entries) : dir.entries[i].python}

\* the paths a scan of the directory is to return: none when it cannot be
\* read or holds no interpreter, else the first recognised entry alone
RefScan(dir) ==
    IF ~dir.readable \/ RefInterpreters(dir) = {} THEN <<>>
    ELSE LET first == CHOOSE i \in RefInterpreters(dir) : \A j \in RefInterpreters(dir) : i <= j
         IN  <<PathJoin(dir.path, dir.entries[first].name)>>

====
